---- MODULE Spec2Model ----
(***************************************************************************)
(* Model of the motorcycle-workshop registry (vital-projeto2):             *)
(*   - modelo/veiculo.py, modelo/checklist.py, modelo/checklist_item.py    *)
(*   - controle/oficina_controller.py      (in-memory controller)          *)
(*   - controle/validadores.py, controle/validadores_checklist.py          *)
(*   - analytics/oficina_analytics.py      (financial report)              *)
(* Strings are tuples of one-character strings so that strip / upper /     *)
(* replace are computed, not assumed.  Money is counted in whole units.    *)
(***************************************************************************)
EXTENDS Integers, Sequences, FiniteSets, TLC

VARIABLES motos, checklists, ret, relatorio, km_novo, km_anterior, km_res,
          db_motos, db_checklists, db_seq, db_sujo, tipo_periodo, data_referencia,
          itens_devolvidos, gerado,
          estimativa,
          usuarios,
          pedidos

\* the arguments and the result of the mileage validator
km_vars == <<km_novo, km_anterior, km_res>>
\* the tables, the serial counters and the uncommitted changes of the session
db_vars == <<db_motos, db_checklists, db_seq, db_sujo>>

\* the arguments of relatorio_financeiro_por_periodo
periodo_vars == <<tipo_periodo, data_referencia>>

\* the list a caller got from Checklist.itens
copia_vars == <<itens_devolvidos>>

\* the value the template functions returned
template_vars == <<gerado>>

\* the result of the last cost estimate or prediction
analise_vars == <<estimativa>>

\* the table of users of the API
api_vars == <<usuarios>>

\* the requests in flight: where each one is in cadastrar_moto and what it saw
concorrencia_vars == <<pedidos>>

vars == <<motos, checklists, ret, relatorio, km_vars, db_vars, periodo_vars, copia_vars,
          template_vars, concorrencia_vars, api_vars, analise_vars>>

(***************************************************************************)
(* Bounds of the model                                                     *)
(***************************************************************************)
MaxChecklists == 2
MaxChecklistsItens == 1
MaxChecklistsFin == 2
MaxItens == 2

\* Optional values: None is the empty tuple, a present value v is <<v>>
NoneVal == <<>>
Some(v) == <<v>>
ValueOf(o) == o[1]

(***************************************************************************)
(* Python str methods used by the code                                     *)
(***************************************************************************)
RECURSIVE str_lstrip(_)
str_lstrip(s) ==
    IF s = <<>> THEN s
    ELSE IF Head(s) = " " THEN str_lstrip(Tail(s)) ELSE s

RECURSIVE str_rstrip(_)
str_rstrip(s) ==
    IF s = <<>> THEN s
    ELSE IF s[Len(s)] = " " THEN str_rstrip(SubSeq(s, 1, Len(s) - 1)) ELSE s

str_strip(s) == str_rstrip(str_lstrip(s))

Minusculas == <<"a", "b", "c", "d", "e", "f", "g", "h", "i", "j", "k", "l", "m",
                "n", "o", "p", "q", "r", "s", "t", "u", "v", "w", "x", "y", "z">>
Maiusculas == <<"A", "B", "C", "D", "E", "F", "G", "H", "I", "J", "K", "L", "M",
                "N", "O", "P", "Q", "R", "S", "T", "U", "V", "W", "X", "Y", "Z">>

upper_char(c) ==
    IF \E i \in 1..Len(Minusculas) : Minusculas[i] = c
    THEN Maiusculas[CHOOSE i \in 1..Len(Minusculas) : Minusculas[i] = c]
    ELSE c

str_upper(s) == [i \in 1..Len(s) |-> upper_char(s[i])]

\* s.replace(old, "")
str_replace(s, old) == SelectSeq(s, LAMBDA c : c # old)

(***************************************************************************)
(* Plates handed to the controllers by callers                             *)
(***************************************************************************)
PlacaHifen   == <<"a", "b", "c", "-", "1", "2", "3", "4">>
PlacaEspaco  == <<"A", "B", "C", " ", "1", "2", "3", "4">>
PlacaMinusc  == <<"a", "b", "c", "1", "2", "3", "4">>
PlacaMaiusc  == <<"A", "B", "C", "1", "2", "3", "4">>
PlacaBorda   == <<" ", "a", "b", "c", "1", "2", "3", "4", " ">>
PlacaOutra   == <<"X", "Y", "Z", "9", "8", "7", "6">>
PlacaBranca  == <<" ">>

\* controle/validadores.py normalizar_placa
normalizar_placa(placa) ==
    IF placa = <<>> THEN <<>>
    ELSE str_replace(str_replace(str_upper(str_strip(placa)), "-"), " ")

\* modelo/veiculo.py Veiculo._set_placa: the stored plate, or ValueError
placa_valida(placa) == placa # <<>> /\ str_strip(placa) # <<>>
Placa_armazenada(placa) == str_upper(str_strip(placa))

(***************************************************************************)
(* modelo/checklist_item.py                                                *)
(***************************************************************************)
CONCLUIDO == "concluido"
PENDENTE == "pendente"
NECESSITA_TROCA == "necessita_troca"
StatusItem == {CONCLUIDO, PENDENTE, NECESSITA_TROCA}

Max2(a, b) == IF a >= b THEN a ELSE b

CategoriaGeral == <<"G", "e", "r", "a", "l">>

\* ChecklistItem.__init__(nome, categoria, status, custo_estimado) (name
\* already checked by the caller of this operator)
ChecklistItem_categoria(nome, categoria, status, custo_estimado) ==
    [nome |-> str_strip(nome),
     categoria |-> IF categoria # <<>> THEN str_strip(categoria) ELSE CategoriaGeral,
     status |-> status,
     custo_estimado |-> Max2(custo_estimado, 0)]

\* ChecklistItem.__init__ for an item given without a category
ChecklistItem(nome, status, custo_estimado) ==
    ChecklistItem_categoria(nome, <<>>, status, custo_estimado)

nome_valido(nome) == nome # <<>> /\ str_strip(nome) # <<>>

(***************************************************************************)
(* modelo/checklist.py                                                     *)
(***************************************************************************)
\* Checklist.__init__ with id = None (0 stands for "no id yet")
Checklist(placa, km_atual, data_revisao, itens) ==
    [id |-> 0, placa |-> placa, km_atual |-> km_atual,
     data_revisao |-> data_revisao, itens |-> itens,
     finalizado |-> FALSE, pago |-> FALSE, custo_real |-> NoneVal]

\* faulty variant: the item is put in front of the list
adicionar_item_no_inicio(itens, item) == <<item>> \o itens

\* Checklist.adicionar_item for a value that is a ChecklistItem:
\* self._itens.append(item)
adicionar_item(itens, item) == Append(itens, item)

\* faulty variant: the status filter is dropped, every item is added
RECURSIVE soma_custos_sem_filtro(_, _)
soma_custos_sem_filtro(itens, acc) ==
    IF itens = <<>> THEN acc
    ELSE soma_custos_sem_filtro(Tail(itens), acc + Head(itens).custo_estimado)

\* Checklist.custo_total_estimado: sum(... for item in self._itens if ...)
RECURSIVE soma_custos(_, _)
soma_custos(itens, acc) ==
    IF itens = <<>> THEN acc
    ELSE soma_custos(Tail(itens),
                     IF Head(itens).status = NECESSITA_TROCA
                     THEN acc + Head(itens).custo_estimado ELSE acc)

custo_total_estimado(c) == soma_custos(c.itens, 0)

\* a list object handed to a caller: alias tells whether it is the list
\* object the checklist of that id holds itself; no list was handed out yet
SemLista == [alias |-> FALSE, id |-> 0, itens |-> <<>>]

\* faulty variant: the property returns self._itens itself
Checklist_itens_sem_copia(c) == [alias |-> TRUE, id |-> c.id, itens |-> c.itens]

\* Checklist.itens: list(self._itens), a new list of the same item objects
Checklist_itens(c) == [alias |-> FALSE, id |-> c.id, itens |-> c.itens]

(***************************************************************************)
(* controle/oficina_controller.py : queries                                *)
(***************************************************************************)
\* index of the first moto whose stored plate equals the cleaned argument
indice_moto(ms, placa) ==
    LET p == str_upper(str_strip(placa))
        S == {i \in 1..Len(ms) : ms[i].placa = p}
    IN IF placa = <<>> \/ S = {} THEN 0
       ELSE CHOOSE i \in S : \A j \in S : i <= j

get_moto_por_placa(ms, placa) ==
    IF indice_moto(ms, placa) = 0 THEN NoneVal
    ELSE Some(ms[indice_moto(ms, placa)])

\* index of the first checklist with that id, 0 when there is none
indice_checklist(cs, checklist_id) ==
    LET S == {i \in 1..Len(cs) : cs[i].id = checklist_id}
    IN IF S = {} THEN 0 ELSE CHOOSE i \in S : \A j \in S : i <= j

buscar_checklist_por_id(cs, checklist_id) ==
    IF indice_checklist(cs, checklist_id) = 0 THEN NoneVal
    ELSE Some(cs[indice_checklist(cs, checklist_id)])

get_checklists_por_moto(cs, placa) ==
    IF placa = <<>> THEN <<>>
    ELSE SelectSeq(cs, LAMBDA c : c.placa = str_upper(str_strip(placa)))

Resultado(op, res, id) == [op |-> op, res |-> res, id |-> id]

SemRelatorio == [feito |-> FALSE]

(***************************************************************************)
(* controle/validadores_checklist.py                                       *)
(***************************************************************************)
LimiteKmErro == 50000
LimiteKmAlerta == 20000

\* faulty variant: the comparison with the previous mileage is missing
validar_km_revisao_sem_regressao(km, km_ant) ==
    IF km < 0 THEN [feito |-> TRUE, valida |-> FALSE, msg |-> "negativa"]
    ELSE IF km_ant = NoneVal THEN [feito |-> TRUE, valida |-> TRUE, msg |-> "None"]
    ELSE IF km - ValueOf(km_ant) > LimiteKmErro
    THEN [feito |-> TRUE, valida |-> FALSE, msg |-> "muito_grande"]
    ELSE IF km - ValueOf(km_ant) > LimiteKmAlerta
    THEN [feito |-> TRUE, valida |-> TRUE, msg |-> "alerta"]
    ELSE [feito |-> TRUE, valida |-> TRUE, msg |-> "None"]

\* validar_km_revisao(moto, km_novo, ultimo_checklist): km_ant is the
\* optional km_atual of ultimo_checklist; the result is (valida, mensagem)
validar_km_revisao(km, km_ant) ==
    IF km < 0 THEN [feito |-> TRUE, valida |-> FALSE, msg |-> "negativa"]
    ELSE IF km_ant = NoneVal THEN [feito |-> TRUE, valida |-> TRUE, msg |-> "None"]
    ELSE IF km < ValueOf(km_ant)
    THEN [feito |-> TRUE, valida |-> FALSE, msg |-> "menor"]
    ELSE IF km - ValueOf(km_ant) > LimiteKmErro
    THEN [feito |-> TRUE, valida |-> FALSE, msg |-> "muito_grande"]
    ELSE IF km - ValueOf(km_ant) > LimiteKmAlerta
    THEN [feito |-> TRUE, valida |-> TRUE, msg |-> "alerta"]
    ELSE [feito |-> TRUE, valida |-> TRUE, msg |-> "None"]

\* obter_ultimo_checklist(controller, placa_moto) on the in-memory
\* controller: the first element of get_checklists_por_moto
obter_ultimo_checklist(cs, placa) ==
    IF get_checklists_por_moto(cs, placa) = <<>> THEN NoneVal
    ELSE Some(Head(get_checklists_por_moto(cs, placa)))

SemValidacao == [feito |-> FALSE]

(***************************************************************************)
(* controle/oficina_controller.py : mutations                              *)
(***************************************************************************)
\* OficinaController.cadastrar_moto(Moto(placa, ...))
cadastrar_moto(placa) ==
    /\ IF ~placa_valida(placa)
       THEN /\ ret' = Resultado("cadastrar_moto", "ValueError", 0)
            /\ UNCHANGED motos
       ELSE IF get_moto_por_placa(motos, Placa_armazenada(placa)) # NoneVal
       THEN /\ ret' = Resultado("cadastrar_moto", "ignorada", 0)
            /\ UNCHANGED motos
       ELSE /\ motos' = Append(motos, [placa |-> Placa_armazenada(placa)])
            /\ ret' = Resultado("cadastrar_moto", "ok", 0)
    /\ relatorio' = SemRelatorio
    /\ UNCHANGED <<template_vars, concorrencia_vars, api_vars, analise_vars, checklists, km_vars, copia_vars, periodo_vars, db_vars>>

\* the registry of vehicles after registrar_checklist's automatic cadastro
motos_apos_registro(ms, p) ==
    IF get_moto_por_placa(ms, p) = NoneVal THEN Append(ms, [placa |-> p]) ELSE ms

\* OficinaController.registrar_checklist(Checklist(Moto(placa), km, data))
registrar_checklist(placa, km, data, itens) ==
    /\ IF ~placa_valida(placa) \/ km < 0
       THEN /\ ret' = Resultado("registrar_checklist", "ValueError", 0)
            /\ UNCHANGED <<motos, checklists>>
       ELSE LET p == Placa_armazenada(placa)
                novo_id == Len(checklists) + 1
                c == [Checklist(p, km, data, itens) EXCEPT !.id = novo_id]
            IN /\ motos' = motos_apos_registro(motos, p)
               /\ checklists' = Append(checklists, c)
               /\ ret' = Resultado("registrar_checklist", "ok", novo_id)
    /\ relatorio' = SemRelatorio
    /\ UNCHANGED <<template_vars, concorrencia_vars, api_vars, analise_vars, km_vars, copia_vars, periodo_vars, db_vars>>

\* Checklist.__init__ with the keyword arguments finalizado, pago and
\* custo_real given: they are stored as they come
Checklist_construido(placa, km_atual, data_revisao, finalizado, pago, custo_real) ==
    [Checklist(placa, km_atual, data_revisao, <<>>)
        EXCEPT !.finalizado = finalizado, !.pago = pago, !.custo_real = custo_real]

\* OficinaController.registrar_checklist(Checklist(Moto(placa), km, data,
\* finalizado=..., pago=..., custo_real=...))
registrar_checklist_construido(placa, km, data, finalizado, pago, custo_real) ==
    /\ IF ~placa_valida(placa) \/ km < 0
       THEN /\ ret' = Resultado("registrar_checklist", "ValueError", 0)
            /\ UNCHANGED <<motos, checklists>>
       ELSE LET p == Placa_armazenada(placa)
                novo_id == Len(checklists) + 1
                c == [Checklist_construido(p, km, data, finalizado, pago, custo_real)
                         EXCEPT !.id = novo_id]
            IN /\ motos' = motos_apos_registro(motos, p)
               /\ checklists' = Append(checklists, c)
               /\ ret' = Resultado("registrar_checklist", "ok", novo_id)
    /\ relatorio' = SemRelatorio
    /\ UNCHANGED <<template_vars, concorrencia_vars, api_vars, analise_vars, km_vars, copia_vars, periodo_vars, db_vars>>

RemoveAt(s, i) == SubSeq(s, 1, i - 1) \o SubSeq(s, i + 1, Len(s))

\* OficinaController.deletar_checklist_por_id
deletar_checklist_por_id(checklist_id) ==
    /\ LET i == indice_checklist(checklists, checklist_id)
       IN IF i = 0
          THEN /\ ret' = Resultado("deletar_checklist_por_id", "False", checklist_id)
               /\ UNCHANGED checklists
          ELSE /\ checklists' = RemoveAt(checklists, i)
               /\ ret' = Resultado("deletar_checklist_por_id", "True", checklist_id)
    /\ relatorio' = SemRelatorio
    /\ UNCHANGED <<template_vars, concorrencia_vars, api_vars, analise_vars, motos, km_vars, copia_vars, periodo_vars, db_vars>>

\* faulty variant: the checklists of the vehicle are left in the registry
deletar_moto_sem_cascata(placa) ==
    /\ IF get_moto_por_placa(motos, placa) = NoneVal
       THEN /\ ret' = Resultado("deletar_moto", "False", 0)
            /\ UNCHANGED <<motos, checklists>>
       ELSE /\ checklists' = checklists
            /\ motos' = SelectSeq(motos, LAMBDA m : m.placa # placa)
            /\ ret' = Resultado("deletar_moto", "True", 0)
    /\ relatorio' = SemRelatorio
    /\ UNCHANGED <<template_vars, concorrencia_vars, api_vars, analise_vars, km_vars, copia_vars, periodo_vars, db_vars>>

\* OficinaController.deletar_moto: the lookup cleans the plate, the two
\* filters compare the stored plates with the argument as it was given
deletar_moto(placa) ==
    /\ IF get_moto_por_placa(motos, placa) = NoneVal
       THEN /\ ret' = Resultado("deletar_moto", "False", 0)
            /\ UNCHANGED <<motos, checklists>>
       ELSE /\ checklists' = SelectSeq(checklists, LAMBDA c : c.placa # placa)
            /\ motos' = SelectSeq(motos, LAMBDA m : m.placa # placa)
            /\ ret' = Resultado("deletar_moto", "True", 0)
    /\ relatorio' = SemRelatorio
    /\ UNCHANGED <<template_vars, concorrencia_vars, api_vars, analise_vars, km_vars, copia_vars, periodo_vars, db_vars>>

\* OficinaController.atualizar_item_checklist: item_index is 0-based; the
\* status is assigned before the cost setter checks the sign of the cost
item_atualizado(item, status, custo_estimado) ==
    LET item1 == IF status # NoneVal
                 THEN [item EXCEPT !.status = ValueOf(status)] ELSE item
    IN IF custo_estimado # NoneVal /\ ValueOf(custo_estimado) >= 0
       THEN [item1 EXCEPT !.custo_estimado = ValueOf(custo_estimado)]
       ELSE item1

\* faulty variant: the test item_index < 0 is missing, so a negative index
\* counts from the end of the list, or raises IndexError when it is too small
atualizar_item_checklist_indice_negativo(checklist_id, item_index, status, custo_estimado) ==
    /\ LET i == indice_checklist(checklists, checklist_id)
       IN IF i = 0
          THEN /\ ret' = Resultado("atualizar_item_checklist", "False", checklist_id)
               /\ UNCHANGED checklists
          ELSE IF item_index >= Len(checklists[i].itens)
          THEN /\ ret' = Resultado("atualizar_item_checklist", "False", checklist_id)
               /\ UNCHANGED checklists
          ELSE IF item_index < 0 - Len(checklists[i].itens)
          THEN /\ ret' = Resultado("atualizar_item_checklist", "IndexError", checklist_id)
               /\ UNCHANGED checklists
          ELSE LET k == IF item_index < 0
                        THEN Len(checklists[i].itens) + item_index + 1
                        ELSE item_index + 1
                   item == checklists[i].itens[k]
               IN /\ checklists' =
                        [checklists EXCEPT ![i].itens[k] =
                            item_atualizado(item, status, custo_estimado)]
                  /\ ret' = Resultado("atualizar_item_checklist",
                                IF custo_estimado # NoneVal /\ ValueOf(custo_estimado) < 0
                                THEN "ValueError" ELSE "True", checklist_id)
    /\ relatorio' = SemRelatorio
    /\ UNCHANGED <<template_vars, concorrencia_vars, api_vars, analise_vars, motos, km_vars, copia_vars, periodo_vars, db_vars>>

atualizar_item_checklist(checklist_id, item_index, status, custo_estimado) ==
    /\ LET i == indice_checklist(checklists, checklist_id)
       IN IF i = 0
          THEN /\ ret' = Resultado("atualizar_item_checklist", "False", checklist_id)
               /\ UNCHANGED checklists
          ELSE IF item_index < 0 \/ item_index >= Len(checklists[i].itens)
          THEN /\ ret' = Resultado("atualizar_item_checklist", "False", checklist_id)
               /\ UNCHANGED checklists
          ELSE LET item == checklists[i].itens[item_index + 1]
               IN /\ checklists' =
                        [checklists EXCEPT ![i].itens[item_index + 1] =
                            item_atualizado(item, status, custo_estimado)]
                  /\ ret' = Resultado("atualizar_item_checklist",
                                IF custo_estimado # NoneVal /\ ValueOf(custo_estimado) < 0
                                THEN "ValueError" ELSE "True", checklist_id)
    /\ relatorio' = SemRelatorio
    /\ UNCHANGED <<template_vars, concorrencia_vars, api_vars, analise_vars, motos, km_vars, copia_vars, periodo_vars, db_vars>>

\* OficinaController.adicionar_item_checklist
adicionar_item_checklist(checklist_id, nome, status, custo_estimado) ==
    /\ LET i == indice_checklist(checklists, checklist_id)
       IN IF i = 0
          THEN /\ ret' = Resultado("adicionar_item_checklist", "False", checklist_id)
               /\ UNCHANGED checklists
          ELSE IF ~nome_valido(nome)
          THEN /\ ret' = Resultado("adicionar_item_checklist", "ValueError", checklist_id)
               /\ UNCHANGED checklists
          ELSE /\ checklists' =
                     [checklists EXCEPT ![i].itens =
                         adicionar_item(@, ChecklistItem(nome, status, custo_estimado))]
               /\ ret' = Resultado("adicionar_item_checklist", "True", checklist_id)
    /\ relatorio' = SemRelatorio
    /\ UNCHANGED <<template_vars, concorrencia_vars, api_vars, analise_vars, motos, km_vars, copia_vars, periodo_vars, db_vars>>

\* a value handed to Checklist.adicionar_item: an object of some class
Objeto(classe, valor) == [classe |-> classe, valor |-> valor]

\* checklist = controller.buscar_checklist_por_id(checklist_id);
\* checklist.adicionar_item(objeto)
Checklist_adicionar_item(checklist_id, objeto) ==
    /\ indice_checklist(checklists, checklist_id) # 0
    /\ IF objeto.classe # "ChecklistItem"
       THEN /\ ret' = Resultado("adicionar_item", "ValueError", checklist_id)
            /\ UNCHANGED checklists
       ELSE /\ checklists' =
                  [checklists EXCEPT ![indice_checklist(checklists, checklist_id)].itens =
                      adicionar_item(@, objeto.valor)]
            /\ ret' = Resultado("adicionar_item", "None", checklist_id)
    /\ relatorio' = SemRelatorio
    /\ UNCHANGED <<template_vars, concorrencia_vars, api_vars, analise_vars, motos, km_vars, copia_vars, periodo_vars, db_vars>>

\* faulty variant: a checklist that becomes paid becomes finalized too
status_atualizado_pago_finaliza(c, finalizado, pago, custo_real) ==
    LET c1 == IF finalizado # NoneVal
              THEN [c EXCEPT !.finalizado = ValueOf(finalizado)] ELSE c
        c2 == IF pago # NoneVal
              THEN [c1 EXCEPT !.pago = ValueOf(pago),
                              !.finalizado = @ \/ ValueOf(pago)]
              ELSE c1
    IN IF custo_real # NoneVal /\ ValueOf(custo_real) >= 0
       THEN [c2 EXCEPT !.custo_real = custo_real]
       ELSE c2

\* OficinaController.atualizar_status_checklist: the two flags are assigned
\* before the sign of custo_real is checked
status_atualizado(c, finalizado, pago, custo_real) ==
    LET c1 == IF finalizado # NoneVal
              THEN [c EXCEPT !.finalizado = ValueOf(finalizado)] ELSE c
        c2 == IF pago # NoneVal THEN [c1 EXCEPT !.pago = ValueOf(pago)] ELSE c1
    IN IF custo_real # NoneVal /\ ValueOf(custo_real) >= 0
       THEN [c2 EXCEPT !.custo_real = custo_real]
       ELSE c2

atualizar_status_checklist(checklist_id, finalizado, pago, custo_real) ==
    /\ LET i == indice_checklist(checklists, checklist_id)
       IN IF i = 0
          THEN /\ ret' = Resultado("atualizar_status_checklist", "None", checklist_id)
               /\ UNCHANGED checklists
          ELSE /\ checklists' =
                     [checklists EXCEPT ![i] =
                         status_atualizado(@, finalizado, pago, custo_real)]
               /\ ret' = Resultado("atualizar_status_checklist",
                             IF custo_real # NoneVal /\ ValueOf(custo_real) < 0
                             THEN "ValueError" ELSE "ok", checklist_id)
    /\ relatorio' = SemRelatorio
    /\ UNCHANGED <<template_vars, concorrencia_vars, api_vars, analise_vars, motos, km_vars, copia_vars, periodo_vars, db_vars>>

(***************************************************************************)
(* A caller reads Checklist.itens and changes the list it got               *)
(***************************************************************************)
\* itens = controller.buscar_checklist_por_id(checklist_id).itens
ObterItens(checklist_id) ==
    /\ indice_checklist(checklists, checklist_id) # 0
    /\ itens_devolvidos' =
          Checklist_itens(checklists[indice_checklist(checklists, checklist_id)])
    /\ ret' = Resultado("itens", "ok", checklist_id)
    /\ UNCHANGED <<template_vars, concorrencia_vars, api_vars, analise_vars, motos, checklists, relatorio, km_vars, db_vars, periodo_vars>>

\* the caller's list becomes nova; the checklist's own list is written only
\* when the two are one and the same list object
lista_devolvida_recebe(op, nova) ==
    /\ itens_devolvidos.id # 0
    /\ itens_devolvidos' = [itens_devolvidos EXCEPT !.itens = nova]
    /\ LET i == indice_checklist(checklists, itens_devolvidos.id)
       IN IF itens_devolvidos.alias /\ i # 0
          THEN checklists' = [checklists EXCEPT ![i].itens = nova]
          ELSE UNCHANGED checklists
    /\ ret' = Resultado(op, "ok", itens_devolvidos.id)
    /\ UNCHANGED <<template_vars, concorrencia_vars, api_vars, analise_vars, motos, relatorio, km_vars, db_vars, periodo_vars>>

\* itens.append(item)
lista_append(item) ==
    lista_devolvida_recebe("list.append", Append(itens_devolvidos.itens, item))

\* itens.pop(0)
lista_pop ==
    /\ itens_devolvidos.itens # <<>>
    /\ lista_devolvida_recebe("list.pop", Tail(itens_devolvidos.itens))

\* itens.reverse()
lista_reverse ==
    lista_devolvida_recebe("list.reverse",
        [k \in 1..Len(itens_devolvidos.itens) |->
            itens_devolvidos.itens[Len(itens_devolvidos.itens) + 1 - k]])

(***************************************************************************)
(* analytics/oficina_analytics.py : relatorio_financeiro                   *)
(***************************************************************************)
\* faulty variant: the start of the period is exclusive
buscar_checklists_por_periodo_inicio_exclusivo(cs, data_inicio, data_fim) ==
    LET cs1 == IF data_inicio # NoneVal
               THEN SelectSeq(cs, LAMBDA c : c.data_revisao > ValueOf(data_inicio))
               ELSE cs
    IN IF data_fim # NoneVal
       THEN SelectSeq(cs1, LAMBDA c : c.data_revisao <= ValueOf(data_fim))
       ELSE cs1

\* OficinaController.buscar_checklists_por_periodo
buscar_checklists_por_periodo(cs, data_inicio, data_fim) ==
    LET cs1 == IF data_inicio # NoneVal
               THEN SelectSeq(cs, LAMBDA c : c.data_revisao >= ValueOf(data_inicio))
               ELSE cs
    IN IF data_fim # NoneVal
       THEN SelectSeq(cs1, LAMBDA c : c.data_revisao <= ValueOf(data_fim))
       ELSE cs1

\* faulty variant: the real cost is added only for paid checklists
RECURSIVE acumular_custos_dos_pagos(_, _)
acumular_custos_dos_pagos(cs, acc) ==
    IF cs = <<>> THEN acc
    ELSE LET c == Head(cs)
             a1 == [acc EXCEPT !.motos_unicas = @ \cup {c.placa}]
             a3 == IF c.pago
                   THEN [a1 EXCEPT !.receitas = @ + custo_total_estimado(c),
                                   !.custos = @ + (IF c.custo_real # NoneVal
                                                   THEN ValueOf(c.custo_real) ELSE 0),
                                   !.checklists_pagos = @ + 1]
                   ELSE [a1 EXCEPT !.checklists_nao_pagos = @ + 1]
         IN acumular_custos_dos_pagos(Tail(cs), a3)

\* the accumulation loop of relatorio_financeiro
RECURSIVE acumular(_, _)
acumular(cs, acc) ==
    IF cs = <<>> THEN acc
    ELSE LET c == Head(cs)
             a1 == [acc EXCEPT !.motos_unicas = @ \cup {c.placa}]
             a2 == IF c.custo_real # NoneVal
                   THEN [a1 EXCEPT !.custos = @ + ValueOf(c.custo_real)] ELSE a1
             a3 == IF c.pago
                   THEN [a2 EXCEPT !.receitas = @ + custo_total_estimado(c),
                                   !.checklists_pagos = @ + 1]
                   ELSE [a2 EXCEPT !.checklists_nao_pagos = @ + 1]
         IN acumular(Tail(cs), a3)

\* greatest common divisor, for quotients kept as exact fractions
RECURSIVE MDC(_, _)
MDC(a, b) == IF b = 0 THEN a ELSE MDC(b, a % b)

\* a / b for a >= 0 and b > 0, as a fraction in lowest terms
Dividir(a, b) == [num |-> a \div MDC(a, b), den |-> b \div MDC(a, b)]

AcumuladorInicial ==
    [receitas |-> 0, custos |-> 0, motos_unicas |-> {},
     checklists_pagos |-> 0, checklists_nao_pagos |-> 0]

\* faulty variant: quantidade_motos counts the checklists, not the plates
calcular_metricas_motos_por_checklist(escopo, data_inicio, data_fim) ==
    LET acc == acumular(escopo, AcumuladorInicial)
    IN [feito |-> TRUE,
        data_inicio |-> data_inicio, data_fim |-> data_fim,
        escopo |-> escopo,
        receitas |-> acc.receitas,
        custos |-> acc.custos,
        lucro |-> acc.receitas - acc.custos,
        quantidade_motos |-> Len(escopo),
        quantidade_servicos |-> Len(escopo),
        checklists_pagos |-> acc.checklists_pagos,
        checklists_nao_pagos |-> acc.checklists_nao_pagos,
        ticket_medio |-> IF Len(escopo) > 0 THEN Dividir(acc.receitas, Len(escopo))
                         ELSE [num |-> 0, den |-> 1]]

\* relatorio_financeiro after the checklists of the period were obtained:
\* escopo is the list the loop runs over
calcular_metricas(escopo, data_inicio, data_fim) ==
    LET acc == acumular(escopo, AcumuladorInicial)
    IN [feito |-> TRUE,
        data_inicio |-> data_inicio, data_fim |-> data_fim,
        escopo |-> escopo,
        receitas |-> acc.receitas,
        custos |-> acc.custos,
        lucro |-> acc.receitas - acc.custos,
        quantidade_motos |-> Cardinality(acc.motos_unicas),
        quantidade_servicos |-> Len(escopo),
        checklists_pagos |-> acc.checklists_pagos,
        checklists_nao_pagos |-> acc.checklists_nao_pagos,
        ticket_medio |-> IF Len(escopo) > 0 THEN Dividir(acc.receitas, Len(escopo))
                         ELSE [num |-> 0, den |-> 1]]

relatorio_financeiro(cs, data_inicio, data_fim) ==
    calcular_metricas(buscar_checklists_por_periodo(cs, data_inicio, data_fim),
                      data_inicio, data_fim)

\* a caller asks for the financial report of a period
GerarRelatorio(data_inicio, data_fim) ==
    /\ relatorio' = relatorio_financeiro(checklists, data_inicio, data_fim)
    /\ ret' = Resultado("relatorio_financeiro", "ok", 0)
    /\ UNCHANGED <<template_vars, concorrencia_vars, api_vars, analise_vars, motos, checklists, km_vars, copia_vars, periodo_vars, db_vars>>

(***************************************************************************)
(* datetime.date, as used by relatorio_financeiro_por_periodo.  A date is   *)
(* its proleptic Gregorian ordinal (date.toordinal(): 0001-01-01 is day 1), *)
(* so dates compare as integers and date + timedelta(days=k) is ordinal + k *)
(***************************************************************************)
bissexto(y) == y % 4 = 0 /\ (y % 100 # 0 \/ y % 400 = 0)

dias_no_mes(y, m) ==
    IF m = 2 THEN (IF bissexto(y) THEN 29 ELSE 28)
    ELSE IF m \in {4, 6, 9, 11} THEN 30 ELSE 31

dias_antes_do_ano(y) ==
    (y - 1) * 365 + ((y - 1) \div 4) - ((y - 1) \div 100) + ((y - 1) \div 400)

RECURSIVE dias_antes_do_mes(_, _)
dias_antes_do_mes(y, m) ==
    IF m = 1 THEN 0 ELSE dias_antes_do_mes(y, m - 1) + dias_no_mes(y, m - 1)

\* date(year, month, day) for a valid calendar day
date(y, m, d) == dias_antes_do_ano(y) + dias_antes_do_mes(y, m) + d

\* the year of an ordinal, searched upwards from a year that is not after it
RECURSIVE ano_a_partir_de(_, _)
ano_a_partir_de(n, y) ==
    IF n > dias_antes_do_ano(y + 1) THEN ano_a_partir_de(n, y + 1) ELSE y

date_year(n) == ano_a_partir_de(n, (n \div 366) + 1)

RECURSIVE mes_a_partir_de(_, _, _)
mes_a_partir_de(n, y, m) ==
    IF n > dias_antes_do_ano(y) + dias_antes_do_mes(y, m) + dias_no_mes(y, m)
    THEN mes_a_partir_de(n, y, m + 1) ELSE m

date_month(n) == mes_a_partir_de(n, date_year(n), 1)

date_day(n) ==
    n - dias_antes_do_ano(date_year(n)) - dias_antes_do_mes(date_year(n), date_month(n))

\* date.weekday(): Monday is 0, Sunday is 6
weekday(n) == (n + 6) % 7

(***************************************************************************)
(* analytics/oficina_analytics.py : relatorio_financeiro_por_periodo       *)
(***************************************************************************)
\* faulty variant: the week is counted from Sunday
janela_do_periodo_semana_de_domingo(tipo, ref) ==
    CASE tipo = "dia" -> [erro |-> FALSE, inicio |-> ref, fim |-> ref]
      [] tipo = "semana" ->
            LET dias_para_segunda == (weekday(ref) + 1) % 7
            IN [erro |-> FALSE, inicio |-> ref - dias_para_segunda,
                fim |-> (ref - dias_para_segunda) + 6]
      [] tipo = "mes" ->
            [erro |-> FALSE,
             inicio |-> date(date_year(ref), date_month(ref), 1),
             fim |-> IF date_month(ref) = 12
                     THEN date(date_year(ref) + 1, 1, 1) - 1
                     ELSE date(date_year(ref), date_month(ref) + 1, 1) - 1]
      [] tipo = "ano" ->
            [erro |-> FALSE,
             inicio |-> date(date_year(ref), 1, 1),
             fim |-> date(date_year(ref), 12, 31)]
      [] OTHER -> [erro |-> TRUE, inicio |-> 0, fim |-> 0]

\* the window relatorio_financeiro_por_periodo computes, or ValueError
janela_do_periodo(tipo, ref) ==
    CASE tipo = "dia" -> [erro |-> FALSE, inicio |-> ref, fim |-> ref]
      [] tipo = "semana" ->
            LET dias_para_segunda == weekday(ref) % 7
            IN [erro |-> FALSE, inicio |-> ref - dias_para_segunda,
                fim |-> (ref - dias_para_segunda) + 6]
      [] tipo = "mes" ->
            [erro |-> FALSE,
             inicio |-> date(date_year(ref), date_month(ref), 1),
             fim |-> IF date_month(ref) = 12
                     THEN date(date_year(ref) + 1, 1, 1) - 1
                     ELSE date(date_year(ref), date_month(ref) + 1, 1) - 1]
      [] tipo = "ano" ->
            [erro |-> FALSE,
             inicio |-> date(date_year(ref), 1, 1),
             fim |-> date(date_year(ref), 12, 31)]
      [] OTHER -> [erro |-> TRUE, inicio |-> 0, fim |-> 0]

\* OficinaAnalytics.relatorio_financeiro_por_periodo(tipo_periodo,
\* data_referencia), called once for the arguments at hand
relatorio_financeiro_por_periodo ==
    /\ ret.op # "relatorio_financeiro_por_periodo"
    /\ LET j == janela_do_periodo(tipo_periodo, data_referencia)
       IN IF j.erro
          THEN /\ relatorio' = SemRelatorio
               /\ ret' = Resultado("relatorio_financeiro_por_periodo", "ValueError", 0)
          ELSE /\ relatorio' = relatorio_financeiro(checklists, Some(j.inicio), Some(j.fim))
               /\ ret' = Resultado("relatorio_financeiro_por_periodo", "ok", 0)
    /\ UNCHANGED <<template_vars, concorrencia_vars, api_vars, analise_vars, motos, checklists, km_vars, copia_vars, db_vars, periodo_vars>>

(***************************************************************************)
(* controle/validadores.py : validar_placa_brasileira                      *)
(***************************************************************************)
Letras == {Maiusculas[i] : i \in 1..Len(Maiusculas)}
Digitos == {"0", "1", "2", "3", "4", "5", "6", "7", "8", "9"}
TamMinPlaca == 6
TamMaxPlaca == 8

\* ^[A-Z]{3}\d{4}$
padrao_antigo(p) ==
    /\ Len(p) = 7
    /\ \A i \in 1..3 : p[i] \in Letras
    /\ \A i \in 4..7 : p[i] \in Digitos

\* ^[A-Z]{3}\d[A-Z]\d{2}$
padrao_mercosul(p) ==
    /\ Len(p) = 7
    /\ \A i \in 1..3 : p[i] \in Letras
    /\ p[4] \in Digitos /\ p[5] \in Letras
    /\ p[6] \in Digitos /\ p[7] \in Digitos

\* ^[A-Z0-9]{6,8}$
padrao_alternativo(p) ==
    /\ Len(p) >= 6 /\ Len(p) <= 8
    /\ \A i \in 1..Len(p) : p[i] \in Letras \cup Digitos

validar_placa_brasileira(placa) ==
    /\ placa # <<>>
    /\ LET placa_limpa == str_replace(str_replace(str_upper(str_strip(placa)), "-"), " ")
       IN /\ Len(placa_limpa) >= TamMinPlaca
          /\ Len(placa_limpa) <= TamMaxPlaca
          /\ \/ padrao_antigo(placa_limpa)
             \/ padrao_mercosul(placa_limpa)
             \/ padrao_alternativo(placa_limpa)

\* controle/validadores_checklist.py validar_custo_total (default limit)
AlertaLimiteCusto == 5000

\* faulty variant: a total above the alert limit is not valid
validar_custo_total_alerta_bloqueia(custo_total) ==
    IF custo_total < 0 THEN [valida |-> FALSE, msg |-> "negativo"]
    ELSE IF custo_total > AlertaLimiteCusto THEN [valida |-> FALSE, msg |-> "alerta"]
    ELSE [valida |-> TRUE, msg |-> "None"]

validar_custo_total(custo_total) ==
    IF custo_total < 0 THEN [valida |-> FALSE, msg |-> "negativo"]
    ELSE IF custo_total > AlertaLimiteCusto THEN [valida |-> TRUE, msg |-> "alerta"]
    ELSE [valida |-> TRUE, msg |-> "None"]

(***************************************************************************)
(* db/models.py, db/repository.py, db/converter.py                         *)
(* A row of checklists carries its item rows in id order (the order        *)
(* ChecklistRepository.atualizar_item sorts them in); item rows live and   *)
(* die with their checklist row (cascade all, delete-orphan).              *)
(***************************************************************************)
MotoDB(id, placa) == [id |-> id, placa |-> placa]

ChecklistDB(id, moto_id, c) ==
    [id |-> id, moto_id |-> moto_id, km_atual |-> c.km_atual,
     data_revisao |-> c.data_revisao, finalizado |-> c.finalizado,
     pago |-> c.pago, custo_real |-> c.custo_real, itens |-> c.itens]

\* MotoRepository.buscar_por_placa: the rows with the normalized plate
\* (at most one, the column is unique)
MotoRepository_buscar_por_placa(placa) ==
    LET placa_norm == normalizar_placa(placa)
    IN {m \in db_motos : m.placa = placa_norm}

\* ChecklistRepository.buscar_por_id
ChecklistRepository_buscar_por_id(checklist_id) ==
    {c \in db_checklists : c.id = checklist_id}

\* ChecklistRepository.buscar_por_moto: rows joined with the moto of that plate
ChecklistRepository_buscar_por_moto(placa) ==
    LET motos_da_placa == MotoRepository_buscar_por_placa(placa)
    IN {c \in db_checklists : \E m \in motos_da_placa : c.moto_id = m.id}

\* the rows that ORDER BY data_revisao DESC may put first
primeiros_por_data_desc(rows) ==
    {c \in rows : \A o \in rows : c.data_revisao >= o.data_revisao}

\* checklist_db_para_dominio: ChecklistItem(..., id=item_db.id) is called for
\* each item row, and ChecklistItem.__init__ takes no argument named id
checklist_db_para_dominio_falha(c) == c.itens # <<>>

\* obter_ultimo_checklist(controller, placa) on OficinaControllerDB: the
\* possible results (optional km_atual); an exception of the conversion is
\* caught and None returned
DB_obter_ultimo_checklist(placa) ==
    LET rows == ChecklistRepository_buscar_por_moto(placa)
    IN IF placa = <<>> \/ rows = {} THEN {NoneVal}
       ELSE IF \E c \in rows : checklist_db_para_dominio_falha(c) THEN {NoneVal}
       ELSE {Some(c.km_atual) : c \in primeiros_por_data_desc(rows)}

\* Session.commit: the attribute changes pending in the session are written
commit(rows) ==
    {IF \E sj \in db_sujo : sj.id = c.id
     THEN LET sj == CHOOSE x \in db_sujo : x.id = c.id
          IN [c EXCEPT !.finalizado = sj.finalizado, !.pago = sj.pago]
     ELSE c : c \in rows}

(***************************************************************************)
(* controle/oficina_controller_db.py                                       *)
(***************************************************************************)
\* OficinaControllerDB.cadastrar_moto(Moto(placa, ...))
DB_cadastrar_moto(placa) ==
    /\ IF \/ ~placa_valida(placa)
          \/ ~validar_placa_brasileira(Placa_armazenada(placa))
          \/ MotoRepository_buscar_por_placa(Placa_armazenada(placa)) # {}
       THEN /\ ret' = Resultado("cadastrar_moto", "ValueError", 0)
            /\ UNCHANGED db_vars
       ELSE /\ db_motos' = db_motos \cup
                   {MotoDB(db_seq.moto + 1, normalizar_placa(Placa_armazenada(placa)))}
            /\ db_seq' = [db_seq EXCEPT !.moto = @ + 1]
            /\ db_checklists' = commit(db_checklists)
            /\ db_sujo' = {}
            /\ ret' = Resultado("cadastrar_moto", "ok", 0)
    /\ relatorio' = SemRelatorio
    /\ UNCHANGED <<template_vars, concorrencia_vars, api_vars, analise_vars, motos, checklists, km_vars, copia_vars, periodo_vars>>

\* OficinaControllerDB.registrar_checklist(Checklist(Moto(placa), km, data))
DB_registrar_checklist(placa, km, data, itens) ==
    /\ IF ~placa_valida(placa) \/ km < 0
       THEN /\ ret' = Resultado("registrar_checklist", "ValueError", 0)
            /\ UNCHANGED db_vars
       ELSE LET p == Placa_armazenada(placa)
                c == Checklist(p, km, data, itens)
            IN \E ultimo \in DB_obter_ultimo_checklist(p) :
                 IF \/ ~validar_km_revisao(km, ultimo).valida
                    \/ ~validar_custo_total(custo_total_estimado(c)).valida
                    \/ /\ MotoRepository_buscar_por_placa(p) = {}
                       /\ ~validar_placa_brasileira(p)
                 THEN /\ ret' = Resultado("registrar_checklist", "ValueError", 0)
                      /\ UNCHANGED db_vars
                 ELSE LET nova == MotoRepository_buscar_por_placa(p) = {}
                          moto_id == IF nova THEN db_seq.moto + 1
                                     ELSE (CHOOSE m \in MotoRepository_buscar_por_placa(p) : TRUE).id
                          novo_id == db_seq.checklist + 1
                      IN /\ db_motos' = IF nova
                                        THEN db_motos \cup {MotoDB(moto_id, normalizar_placa(p))}
                                        ELSE db_motos
                         /\ db_seq' = [moto |-> IF nova THEN moto_id ELSE db_seq.moto,
                                       checklist |-> novo_id]
                         /\ db_checklists' =
                               commit(db_checklists) \cup {ChecklistDB(novo_id, moto_id, c)}
                         /\ db_sujo' = {}
                         /\ ret' = Resultado("registrar_checklist",
                                       IF \/ validar_km_revisao(km, ultimo).msg # "None"
                                          \/ validar_custo_total(custo_total_estimado(c)).msg # "None"
                                       THEN "alerta" ELSE "ok", novo_id)
    /\ relatorio' = SemRelatorio
    /\ UNCHANGED <<template_vars, concorrencia_vars, api_vars, analise_vars, motos, checklists, km_vars, copia_vars, periodo_vars>>

\* OficinaControllerDB.deletar_moto: the delete cascades to the checklists
DB_deletar_moto(placa) ==
    /\ IF MotoRepository_buscar_por_placa(placa) = {}
       THEN /\ ret' = Resultado("deletar_moto", "False", 0)
            /\ UNCHANGED db_vars
       ELSE /\ db_motos' = db_motos \ MotoRepository_buscar_por_placa(placa)
            /\ db_checklists' =
                  commit(db_checklists \ ChecklistRepository_buscar_por_moto(placa))
            /\ db_sujo' = {}
            /\ ret' = Resultado("deletar_moto", "True", 0)
            /\ UNCHANGED db_seq
    /\ relatorio' = SemRelatorio
    /\ UNCHANGED <<template_vars, concorrencia_vars, api_vars, analise_vars, motos, checklists, km_vars, copia_vars, periodo_vars>>

\* OficinaControllerDB.deletar_checklist_por_id
DB_deletar_checklist_por_id(checklist_id) ==
    /\ IF ChecklistRepository_buscar_por_id(checklist_id) = {}
       THEN /\ ret' = Resultado("deletar_checklist_por_id", "False", checklist_id)
            /\ UNCHANGED db_vars
       ELSE /\ db_checklists' =
                  commit(db_checklists \ ChecklistRepository_buscar_por_id(checklist_id))
            /\ db_sujo' = {}
            /\ ret' = Resultado("deletar_checklist_por_id", "True", checklist_id)
            /\ UNCHANGED <<db_motos, db_seq>>
    /\ relatorio' = SemRelatorio
    /\ UNCHANGED <<template_vars, concorrencia_vars, api_vars, analise_vars, motos, checklists, km_vars, copia_vars, periodo_vars>>

\* ChecklistRepository.atualizar_item: the values are written as given
item_db_atualizado(item, status, custo_estimado) ==
    LET item1 == IF status # NoneVal
                 THEN [item EXCEPT !.status = ValueOf(status)] ELSE item
    IN IF custo_estimado # NoneVal
       THEN [item1 EXCEPT !.custo_estimado = ValueOf(custo_estimado)]
       ELSE item1

\* OficinaControllerDB.atualizar_item_checklist
DB_atualizar_item_checklist(checklist_id, item_index, status, custo_estimado) ==
    /\ IF \/ ChecklistRepository_buscar_por_id(checklist_id) = {}
          \/ item_index < 0
          \/ \E c \in ChecklistRepository_buscar_por_id(checklist_id) :
                item_index >= Len(c.itens)
       THEN /\ ret' = Resultado("atualizar_item_checklist", "False", checklist_id)
            /\ UNCHANGED db_vars
       ELSE /\ db_checklists' =
                  {IF c.id = checklist_id
                   THEN [c EXCEPT !.itens[item_index + 1] =
                            item_db_atualizado(@, status, custo_estimado)]
                   ELSE c : c \in commit(db_checklists)}
            /\ db_sujo' = {}
            /\ ret' = Resultado("atualizar_item_checklist", "True", checklist_id)
            /\ UNCHANGED <<db_motos, db_seq>>
    /\ relatorio' = SemRelatorio
    /\ UNCHANGED <<template_vars, concorrencia_vars, api_vars, analise_vars, motos, checklists, km_vars, copia_vars, periodo_vars>>

\* OficinaControllerDB.atualizar_status_checklist: the flags are assigned to
\* the row object of the session; a negative custo_real raises before the
\* commit and leaves the assignments pending in the session
DB_atualizar_status_checklist(checklist_id, finalizado, pago, custo_real) ==
    /\ IF ChecklistRepository_buscar_por_id(checklist_id) = {}
       THEN /\ ret' = Resultado("atualizar_status_checklist", "None", checklist_id)
            /\ UNCHANGED db_vars
       ELSE LET row == CHOOSE c \in commit(db_checklists) : c.id = checklist_id
                obj == status_atualizado(row, finalizado, pago, custo_real)
                gravado == CHOOSE c \in db_checklists : c.id = checklist_id
            IN IF custo_real # NoneVal /\ ValueOf(custo_real) < 0
               THEN /\ db_sujo' =
                          {sj \in db_sujo : sj.id # checklist_id} \cup
                          (IF obj.finalizado = gravado.finalizado /\ obj.pago = gravado.pago
                           THEN {}
                           ELSE {[id |-> checklist_id, finalizado |-> obj.finalizado,
                                  pago |-> obj.pago]})
                    /\ ret' = Resultado("atualizar_status_checklist", "ValueError", checklist_id)
                    /\ UNCHANGED <<db_motos, db_checklists, db_seq>>
               ELSE /\ db_checklists' =
                          {IF c.id = checklist_id THEN obj ELSE c : c \in commit(db_checklists)}
                    /\ db_sujo' = {}
                    /\ ret' = Resultado("atualizar_status_checklist", "ok", checklist_id)
                    /\ UNCHANGED <<db_motos, db_seq>>
    /\ relatorio' = SemRelatorio
    /\ UNCHANGED <<template_vars, concorrencia_vars, api_vars, analise_vars, motos, checklists, km_vars, copia_vars, periodo_vars>>

\* database.get_db: the request ends and its session is closed; changes
\* that were not committed are discarded
FecharSessao ==
    /\ db_sujo # {}
    /\ db_sujo' = {}
    /\ ret' = Resultado("fechar_sessao", "ok", 0)
    /\ relatorio' = SemRelatorio
    /\ UNCHANGED <<template_vars, concorrencia_vars, api_vars, analise_vars, motos, checklists, km_vars, copia_vars, periodo_vars, db_motos, db_checklists, db_seq>>

\* checklist_db_para_dominio for a row whose conversion does not fail
checklist_db_para_dominio(c) ==
    [id |-> c.id,
     placa |-> Placa_armazenada((CHOOSE m \in db_motos : m.id = c.moto_id).placa),
     km_atual |-> c.km_atual, data_revisao |-> c.data_revisao,
     itens |-> c.itens, finalizado |-> c.finalizado, pago |-> c.pago,
     custo_real |-> c.custo_real]

\* ChecklistRepository.listar_todos with the two date filters: the rows as
\* the session sees them
ChecklistRepository_listar_todos(data_inicio, data_fim) ==
    {c \in commit(db_checklists) :
        /\ data_inicio # NoneVal => c.data_revisao >= ValueOf(data_inicio)
        /\ data_fim # NoneVal => c.data_revisao <= ValueOf(data_fim)}

\* the lists ORDER BY data_revisao DESC may return for a set of rows
ordenadas_por_data_desc(rows) ==
    {sq \in [1..Cardinality(rows) -> rows] :
        /\ \A i, j \in 1..Cardinality(rows) : i # j => sq[i] # sq[j]
        /\ \A i, j \in 1..Cardinality(rows) :
               i < j => sq[i].data_revisao >= sq[j].data_revisao}

\* OficinaAnalytics.relatorio_financeiro over OficinaControllerDB:
\* buscar_checklists_por_periodo converts every row of the period, and the
\* TypeError of a conversion reaches the caller
DB_GerarRelatorio(data_inicio, data_fim) ==
    /\ LET rows == ChecklistRepository_listar_todos(data_inicio, data_fim)
       IN IF \E c \in rows : checklist_db_para_dominio_falha(c)
          THEN /\ relatorio' = SemRelatorio
               /\ ret' = Resultado("relatorio_financeiro_db", "TypeError", 0)
          ELSE \E sq \in ordenadas_por_data_desc(rows) :
                  /\ relatorio' =
                        calcular_metricas([i \in 1..Len(sq) |-> checklist_db_para_dominio(sq[i])],
                                          data_inicio, data_fim)
                  /\ ret' = Resultado("relatorio_financeiro_db", "ok", 0)
    /\ UNCHANGED <<template_vars, concorrencia_vars, api_vars, analise_vars, motos, checklists, km_vars, copia_vars, periodo_vars, db_vars>>

(***************************************************************************)
(* modelo/checklist_templates.py                                           *)
(***************************************************************************)
\* a string literal of the templates, without surrounding whitespace, kept
\* in one piece
Texto(s) == <<s>>

\* CHECKLIST_REVISAO_PADRAO: (categoria, nome do item)
CHECKLIST_REVISAO_PADRAO ==
    << <<"Motor", "Oleo do motor">>,
       <<"Motor", "Filtro de oleo">>,
       <<"Motor", "Filtro de ar">>,
       <<"Motor", "Velas de ignicao">>,
       <<"Motor", "Verificar vazamentos de oleo/fluidos">>,
       <<"Transmissao", "Corrente (tensao e lubrificacao)">>,
       <<"Transmissao", "Coroa e pinhao">>,
       <<"Transmissao", "Folga/desgaste da transmissao">>,
       <<"Freios", "Pastilhas de freio dianteiras">>,
       <<"Freios", "Pastilhas de freio traseiras">>,
       <<"Freios", "Fluido de freio">>,
       <<"Freios", "Discos de freio">>,
       <<"Pneus", "Pneu dianteiro">>,
       <<"Pneus", "Pneu traseiro">>,
       <<"Pneus", "Rodas/raios">>,
       <<"Suspensao", "Bengalas dianteiras (vazamento)">>,
       <<"Suspensao", "Amortecedor traseiro">>,
       <<"Eletrica", "Bateria">>,
       <<"Eletrica", "Farol alto/baixo">>,
       <<"Eletrica", "Setas">>,
       <<"Eletrica", "Luz de freio">>,
       <<"Eletrica", "Iluminacao do painel">>,
       <<"Seguranca", "Retrovisores">>,
       <<"Seguranca", "Manetes e cabos">>,
       <<"Seguranca", "Retorno do acelerador">>,
       <<"Seguranca", "Ruidos anormais no teste">> >>

\* the blocks "if km_atual >= limite: itens_adicional.append(...)" of
\* obter_itens_por_km, in the order of the code (the block of 5000 appends
\* nothing)
BlocosPorKm ==
    << [limite |-> 5000, itens |-> <<>>],
       [limite |-> 10000, itens |->
           << <<"Motor", "Verificar tensao da correia (se aplicavel)">>,
              <<"Transmissao", "Verificar desgaste da corrente">> >>],
       [limite |-> 15000, itens |->
           << <<"Motor", "Verificar sistema de arrefecimento">>,
              <<"Eletrica", "Verificar sistema de carga">> >>],
       [limite |-> 20000, itens |->
           << <<"Motor", "Verificar valvulas">>,
              <<"Motor", "Verificar compressao do motor">>,
              <<"Suspensao", "Verificar rolamentos das rodas">> >>],
       [limite |-> 25000, itens |->
           << <<"Transmissao", "Verificar desgaste da coroa e pinhao">>,
              <<"Eletrica", "Verificar cabos e conexoes">> >>],
       [limite |-> 30000, itens |->
           << <<"Transmissao", "Troca de correia/corrente (se aplicavel)">>,
              <<"Motor", "Limpeza de bico injetor/carburador">>,
              <<"Suspensao", "Verificar amortecedores (vazamento)">> >>],
       [limite |-> 40000, itens |->
           << <<"Motor", "Verificar sistema de escape">>,
              <<"Eletrica", "Verificar alternador/regulador">> >>],
       [limite |-> 50000, itens |->
           << <<"Motor", "Verificar cabecote e junta">>,
              <<"Transmissao", "Verificar caixa de cambio">>,
              <<"Suspensao", "Revisao completa da suspensao">> >>] >>

\* the list itens_adicional after the blocks
RECURSIVE itens_adicional(_, _)
itens_adicional(blocos, km_atual) ==
    IF blocos = <<>> THEN <<>>
    ELSE (IF km_atual >= Head(blocos).limite THEN Head(blocos).itens ELSE <<>>)
         \o itens_adicional(Tail(blocos), km_atual)

\* the loop "for item in itens_adicional: if item not in itens_vistos: ..."
RECURSIVE itens_unicos(_, _)
itens_unicos(restantes, unicos) ==
    IF restantes = <<>> THEN unicos
    ELSE IF \E k \in 1..Len(unicos) : unicos[k] = Head(restantes)
         THEN itens_unicos(Tail(restantes), unicos)
         ELSE itens_unicos(Tail(restantes), Append(unicos, Head(restantes)))

\* faulty variant: a block is taken only above its threshold
obter_itens_por_km_acima_do_limite(km_atual) ==
    itens_unicos(itens_adicional(BlocosPorKm, km_atual - 1), <<>>)

obter_itens_por_km(km_atual) ==
    itens_unicos(itens_adicional(BlocosPorKm, km_atual), <<>>)

\* the loop "for categoria, nome in pares: checklist.adicionar_item(
\* ChecklistItem(nome, categoria, PENDENTE, 0.0))"
RECURSIVE adicionar_itens_do_template(_, _)
adicionar_itens_do_template(itens, pares) ==
    IF pares = <<>> THEN itens
    ELSE adicionar_itens_do_template(
            adicionar_item(itens,
                ChecklistItem_categoria(Texto(Head(pares)[2]), Texto(Head(pares)[1]),
                                        PENDENTE, 0)),
            Tail(pares))

\* criar_checklist_padrao for a mileage the Checklist constructor accepts;
\* hoje is date.today()
criar_checklist_padrao(placa, km_atual, data_revisao, hoje) ==
    LET data == IF data_revisao = NoneVal THEN hoje ELSE ValueOf(data_revisao)
        checklist == Checklist(placa, km_atual, data, <<>>)
    IN [checklist EXCEPT !.itens =
           adicionar_itens_do_template(@, CHECKLIST_REVISAO_PADRAO)]

\* faulty variant: only the items of the mileage, without the standard ones
criar_checklist_adaptativo_sem_padrao(placa, km_atual, data_revisao, hoje) ==
    LET data == IF data_revisao = NoneVal THEN hoje ELSE ValueOf(data_revisao)
        checklist == Checklist(placa, km_atual, data, <<>>)
    IN [checklist EXCEPT !.itens =
           adicionar_itens_do_template(@, obter_itens_por_km(km_atual))]

criar_checklist_adaptativo(placa, km_atual, data_revisao, hoje) ==
    LET checklist == criar_checklist_padrao(placa, km_atual, data_revisao, hoje)
    IN [checklist EXCEPT !.itens =
           adicionar_itens_do_template(@, obter_itens_por_km(km_atual))]

\* what a call of a template function was given and what it returned
Gerado(op, km, data, valor) == Some([op |-> op, km |-> km, data |-> data, valor |-> valor])

\* itens = obter_itens_por_km(km)
ObterItensPorKm(km) ==
    /\ gerado' = Gerado("obter_itens_por_km", km, NoneVal, obter_itens_por_km(km))
    /\ ret' = Resultado("obter_itens_por_km", "ok", 0)
    /\ UNCHANGED <<concorrencia_vars, api_vars, analise_vars, motos, checklists, relatorio, km_vars, db_vars, periodo_vars, copia_vars>>

\* checklist = criar_checklist_padrao(Moto(placa), km, data)
CriarChecklistPadrao(placa, km, data, hoje) ==
    /\ IF km < 0
       THEN /\ gerado' = NoneVal
            /\ ret' = Resultado("criar_checklist_padrao", "ValueError", 0)
       ELSE /\ gerado' = Gerado("criar_checklist_padrao", km, data,
                                criar_checklist_padrao(placa, km, data, hoje))
            /\ ret' = Resultado("criar_checklist_padrao", "ok", 0)
    /\ UNCHANGED <<concorrencia_vars, api_vars, analise_vars, motos, checklists, relatorio, km_vars, db_vars, periodo_vars, copia_vars>>

\* checklist = criar_checklist_adaptativo(Moto(placa), km, data)
CriarChecklistAdaptativo(placa, km, data, hoje) ==
    /\ IF km < 0
       THEN /\ gerado' = NoneVal
            /\ ret' = Resultado("criar_checklist_adaptativo", "ValueError", 0)
       ELSE /\ gerado' = Gerado("criar_checklist_adaptativo", km, data,
                                criar_checklist_adaptativo(placa, km, data, hoje))
            /\ ret' = Resultado("criar_checklist_adaptativo", "ok", 0)
    /\ UNCHANGED <<concorrencia_vars, api_vars, analise_vars, motos, checklists, relatorio, km_vars, db_vars, periodo_vars, copia_vars>>

(***************************************************************************)
(* auth/dependencies.py, api/auth.py : who may call the API                *)
(***************************************************************************)
\* a row of UsuarioDB; is_active and is_admin are the strings of the columns
UsuarioDB(username, is_active, is_admin) ==
    [username |-> username, is_active |-> is_active, is_admin |-> is_admin]

\* the rows the table holds when the API starts: an administrator, a plain
\* user and a user that was deactivated
UsuariosIniciais ==
    {UsuarioDB("ana", "true", "true"), UsuarioDB("bia", "true", "false"),
     UsuarioDB("caio", "false", "true")}

UsuarioRepository_buscar_por_username(username) ==
    {u \in usuarios : u.username = username}

\* the Authorization header of a request: absent, or a bearer token that is
\* well signed and unexpired or not, with the claim "sub" it carries
Credencial(presente, valido, sub) == [presente |-> presente, valido |-> valido, sub |-> sub]
SemCredencial == Credencial(FALSE, FALSE, NoneVal)

\* decode_access_token: the payload of a valid token, None otherwise
decode_access_token(token) ==
    IF token.valido THEN Some([sub |-> token.sub]) ELSE NoneVal

\* the outcome of a dependency: the status it raises (200 for none) and the user
Autenticado(status, user) == [status |-> status, user |-> user]

\* oauth2_scheme and get_current_user
get_current_user(cred) ==
    IF ~cred.presente THEN Autenticado(401, NoneVal)
    ELSE LET payload == decode_access_token(cred)
         IN IF payload = NoneVal THEN Autenticado(401, NoneVal)
            ELSE IF ValueOf(payload).sub = NoneVal THEN Autenticado(401, NoneVal)
            ELSE LET users == UsuarioRepository_buscar_por_username(ValueOf(ValueOf(payload).sub))
                 IN IF users = {} THEN Autenticado(401, NoneVal)
                    ELSE LET user == CHOOSE u \in users : TRUE
                         IN IF user.is_active # "true" THEN Autenticado(403, NoneVal)
                            ELSE Autenticado(200, Some(user))

\* faulty variant: the token is not looked at, every caller is let through
get_current_active_user_sem_verificar(cred) ==
    Autenticado(200, Some(UsuarioDB("anon", "true", "false")))

get_current_active_user(cred) == get_current_user(cred)

get_current_admin_user(cred) ==
    LET atual == get_current_active_user(cred)
    IN IF atual.status # 200 THEN atual
       ELSE IF ValueOf(atual.user).is_admin # "true" THEN Autenticado(403, NoneVal)
       ELSE atual

(***************************************************************************)
(* api/main_db.py : the endpoints                                          *)
(***************************************************************************)
\* the routes and the dependency each declares for current_user
Rota(nome, dependencia) == [nome |-> nome, dependencia |-> dependencia]
RotaListarMotos == Rota("GET /api/motos", "get_current_active_user")
RotaBuscarMoto == Rota("GET /api/motos/{placa}", "get_current_active_user")
RotaBuscarModelo == Rota("GET /api/motos/buscar/modelo", "get_current_active_user")
RotaCadastrarMoto == Rota("POST /api/motos", "get_current_active_user")
RotaAtualizarMoto == Rota("PUT /api/motos/{placa}", "get_current_active_user")
RotaDeletarMoto == Rota("DELETE /api/motos/{placa}", "get_current_admin_user")
RotaListarChecklists == Rota("GET /api/checklists", "get_current_active_user")
RotaChecklistsPorMoto == Rota("GET /api/checklists/moto/{placa}", "get_current_active_user")
RotaCriarChecklist == Rota("POST /api/checklists", "get_current_active_user")
RotaBuscarChecklist == Rota("GET /api/checklists/{checklist_id}", "get_current_active_user")
RotaAtualizarStatus == Rota("PUT /api/checklists/{checklist_id}/status", "get_current_active_user")
RotaAtualizarItem ==
    Rota("PUT /api/checklists/{checklist_id}/itens/{item_index}", "get_current_active_user")
RotaDeletarChecklist == Rota("DELETE /api/checklists/{checklist_id}", "get_current_admin_user")
RotaAnalytics == Rota("GET /api/analytics", "get_current_active_user")
RotaAnalyticsCategoria == Rota("GET /api/analytics/categoria", "get_current_active_user")
RotaFinanceiro == Rota("GET /api/financeiro", "get_current_active_user")

\* the routes whose handlers only read, or write fields that are not kept here
RotasDeConsulta ==
    {RotaBuscarMoto, RotaBuscarModelo, RotaAtualizarMoto, RotaListarChecklists,
     RotaChecklistsPorMoto, RotaBuscarChecklist, RotaAnalytics, RotaAnalyticsCategoria}

\* Depends(get_current_active_user) or Depends(get_current_admin_user)
autenticar(rota, cred) ==
    IF rota.dependencia = "get_current_admin_user"
    THEN get_current_admin_user(cred)
    ELSE get_current_active_user(cred)

HTTP(status) ==
    CASE status = 200 -> "HTTP 200" [] status = 201 -> "HTTP 201"
      [] status = 400 -> "HTTP 400" [] status = 401 -> "HTTP 401"
      [] status = 403 -> "HTTP 403" [] status = 404 -> "HTTP 404"
      [] status = 422 -> "HTTP 422" [] status = 204 -> "HTTP 204"
      [] status = 500 -> "HTTP 500"

\* the dependency raised HTTPException: the handler is not called
Rejeitada(rota, cred) ==
    /\ ret' = Resultado(rota.nome, HTTP(autenticar(rota, cred).status), 0)
    /\ UNCHANGED <<concorrencia_vars, motos, checklists, relatorio, km_vars, db_vars, periodo_vars, copia_vars,
                   template_vars, analise_vars, api_vars>>

\* a handler answered without calling an operation that writes
Respondida(rota, status) ==
    /\ ret' = Resultado(rota.nome, HTTP(status), 0)
    /\ UNCHANGED <<concorrencia_vars, motos, checklists, relatorio, km_vars, db_vars, periodo_vars, copia_vars,
                   template_vars, analise_vars, api_vars>>

\* the status the handler of a route answers with after the controller
\* operation whose outcome is r
status_da_resposta(r) ==
    CASE r.op = "cadastrar_moto" -> IF r.res = "ok" THEN 201 ELSE 400
      [] r.op = "registrar_checklist" -> IF r.res = "ValueError" THEN 400 ELSE 201
      [] r.op = "deletar_moto" -> IF r.res = "True" THEN 204 ELSE 404
      [] r.op = "deletar_checklist_por_id" -> IF r.res = "True" THEN 204 ELSE 404
      [] r.op = "atualizar_item_checklist" -> IF r.res = "True" THEN 200 ELSE 404
      [] r.op = "atualizar_status_checklist" -> IF r.res = "None" THEN 404 ELSE 200
      [] r.op = "relatorio_financeiro_db" -> IF r.res = "ok" THEN 200 ELSE 500
      [] OTHER -> 0

\* the status line of the response to the last request
resposta_http(r) ==
    IF status_da_resposta(r) = 0 THEN r.res ELSE HTTP(status_da_resposta(r))

\* GET /api/motos
API_listar_motos(cred) ==
    IF autenticar(RotaListarMotos, cred).status # 200
    THEN Rejeitada(RotaListarMotos, cred)
    ELSE Respondida(RotaListarMotos, 200)

\* the routes of RotasDeConsulta
API_consulta(rota, cred) ==
    IF autenticar(rota, cred).status # 200
    THEN Rejeitada(rota, cred)
    ELSE \E status \in {200, 404} : Respondida(rota, status)

\* POST /api/motos with the body {"placa": placa, ...}: MotoCreate bounds the
\* length of placa, the handler validates it and calls the controller
API_cadastrar_moto(cred, placa) ==
    IF autenticar(RotaCadastrarMoto, cred).status # 200
    THEN Rejeitada(RotaCadastrarMoto, cred)
    ELSE IF Len(placa) < TamMinPlaca \/ Len(placa) > TamMaxPlaca
         THEN Respondida(RotaCadastrarMoto, 422)
         ELSE IF ~validar_placa_brasileira(placa)
              THEN Respondida(RotaCadastrarMoto, 400)
              ELSE DB_cadastrar_moto(placa)

\* DELETE /api/motos/{placa}
API_deletar_moto(cred, placa) ==
    IF autenticar(RotaDeletarMoto, cred).status # 200
    THEN Rejeitada(RotaDeletarMoto, cred)
    ELSE DB_deletar_moto(placa)

\* POST /api/checklists with the items given in the body
API_criar_checklist(cred, placa, km, data, itens) ==
    IF autenticar(RotaCriarChecklist, cred).status # 200
    THEN Rejeitada(RotaCriarChecklist, cred)
    ELSE IF MotoRepository_buscar_por_placa(placa) = {}
         THEN Respondida(RotaCriarChecklist, 404)
         ELSE IF km < 0
              THEN Respondida(RotaCriarChecklist, 400)
              ELSE DB_registrar_checklist(
                      placa, km, data,
                      IF itens # <<>> THEN itens
                      ELSE criar_checklist_adaptativo(placa, km, Some(data), data).itens)

\* PUT /api/checklists/{checklist_id}/status
API_atualizar_status_checklist(cred, checklist_id, finalizado, pago, custo_real) ==
    IF autenticar(RotaAtualizarStatus, cred).status # 200
    THEN Rejeitada(RotaAtualizarStatus, cred)
    ELSE DB_atualizar_status_checklist(checklist_id, finalizado, pago, custo_real)

\* PUT /api/checklists/{checklist_id}/itens/{item_index} with a status of StatusItem
API_atualizar_item_checklist(cred, checklist_id, item_index, status, custo_estimado) ==
    IF autenticar(RotaAtualizarItem, cred).status # 200
    THEN Rejeitada(RotaAtualizarItem, cred)
    ELSE DB_atualizar_item_checklist(checklist_id, item_index, status, custo_estimado)

\* DELETE /api/checklists/{checklist_id}
API_deletar_checklist(cred, checklist_id) ==
    IF autenticar(RotaDeletarChecklist, cred).status # 200
    THEN Rejeitada(RotaDeletarChecklist, cred)
    ELSE DB_deletar_checklist_por_id(checklist_id)

\* GET /api/financeiro with data_inicio and data_fim
API_obter_relatorio_financeiro(cred, data_inicio, data_fim) ==
    IF autenticar(RotaFinanceiro, cred).status # 200
    THEN Rejeitada(RotaFinanceiro, cred)
    ELSE DB_GerarRelatorio(data_inicio, data_fim)

(***************************************************************************)
(* analytics/oficina_analytics.py: the linear cost model                   *)
(***************************************************************************)
Abs(x) == IF x < 0 THEN 0 - x ELSE x

\* a / b for b # 0, as a fraction in lowest terms with a positive denominator
Fracao(a, b) ==
    LET g == MDC(Abs(a), Abs(b))
        sinal == IF b < 0 THEN 0 - 1 ELSE 1
    IN [num |-> (sinal * a) \div g, den |-> (sinal * b) \div g]

FracaoZero == [num |-> 0, den |-> 1]

\* f * k + g for fractions f and g and an integer k
FracaoVezesMais(f, k, g) ==
    Fracao(f.num * k * g.den + g.num * f.den, f.den * g.den)

\* what a call returned: None, a model {coef_angular, coef_linear}, a
\* predicted value, or the exception it raised
Estimado(tipo, a, b) == [tipo |-> tipo, a |-> a, b |-> b]
SemEstimativa == [op |-> "nenhuma", km |-> 0, res |-> Estimado("None", FracaoZero, FracaoZero)]

\* km_array and custos_totais_array
km_array(cs) == [k \in 1..Len(cs) |-> cs[k].km_atual]
custos_totais_array(cs) == [k \in 1..Len(cs) |-> custo_total_estimado(cs[k])]

RECURSIVE SomaSeq(_)
SomaSeq(s) == IF s = <<>> THEN 0 ELSE Head(s) + SomaSeq(Tail(s))

\* np.polyfit(x, y, 1) for vectors of two or more points: the least squares
\* line; with every x equal the system has rank 1 and lstsq gives the
\* solution of least norm of the scaled system; with every x zero the scaling
\* divides by zero, the matrix holds NaN and lstsq either raises LinAlgError
\* (SVD did not converge) or gives NaN coefficients, as the LAPACK build has it
polyfit(x, y) ==
    LET n == Len(x)
        sx == SomaSeq(x)
        sy == SomaSeq(y)
        sxx == SomaSeq([k \in 1..n |-> x[k] * x[k]])
        sxy == SomaSeq([k \in 1..n |-> x[k] * y[k]])
        d == n * sxx - sx * sx
    IN IF d # 0
       THEN {Estimado("modelo", Fracao(n * sxy - sx * sy, d), Fracao(sy * sxx - sx * sxy, d))}
       ELSE IF x[1] # 0
            THEN {Estimado("modelo", Fracao(sy, 2 * n * x[1]), Fracao(sy, 2 * n))}
            ELSE {Estimado("LinAlgError", FracaoZero, FracaoZero),
                  Estimado("nan", FracaoZero, FracaoZero)}

\* OficinaAnalytics.estimar_custo_por_km: the outcomes of the call
estimar_custo_por_km(cs) ==
    IF Len(km_array(cs)) < 2 \/ Len(custos_totais_array(cs)) < 2
    THEN {Estimado("None", FracaoZero, FracaoZero)}
    ELSE polyfit(km_array(cs), custos_totais_array(cs))

\* OficinaAnalytics.prever_custo_para_km: the outcomes of the call
prever_custo_para_km(cs, km_futuro) ==
    {IF modelo.tipo = "modelo"
     THEN Estimado("valor", FracaoVezesMais(modelo.a, km_futuro, modelo.b), FracaoZero)
     ELSE modelo : modelo \in estimar_custo_por_km(cs)}

\* analytics.estimar_custo_por_km()
EstimarCustoPorKm ==
    /\ \E r \in estimar_custo_por_km(checklists) :
          estimativa' = [op |-> "estimar_custo_por_km", km |-> 0, res |-> r]
    /\ ret' = Resultado("estimar_custo_por_km", "ok", 0)
    /\ UNCHANGED <<concorrencia_vars, api_vars, motos, checklists, relatorio, km_vars, db_vars, periodo_vars, copia_vars,
                   template_vars>>

\* analytics.prever_custo_para_km(km_futuro)
PreverCustoParaKm(km_futuro) ==
    /\ \E r \in prever_custo_para_km(checklists, km_futuro) :
          estimativa' = [op |-> "prever_custo_para_km", km |-> km_futuro, res |-> r]
    /\ ret' = Resultado("prever_custo_para_km", "ok", 0)
    /\ UNCHANGED <<concorrencia_vars, api_vars, motos, checklists, relatorio, km_vars, db_vars, periodo_vars, copia_vars,
                   template_vars>>

(***************************************************************************)
(* api/main_local.py, api/main_db.py : requests served concurrently        *)
(* The handlers are plain functions, which the server runs on a pool of    *)
(* threads. main_local.py shares one OficinaController among them;         *)
(* main_db.py gives every request a session of its own on the same tables. *)
(* A request is "livre" before it calls cadastrar_moto and after the call  *)
(* returned, "verificar" before the existence check and "inserir" once the *)
(* check found no vehicle with its plate.                                  *)
(***************************************************************************)
MaxPedidos == 2

Livre == [pc |-> "livre", registro |-> "nenhum", placa |-> <<>>]

SemPedidos == [r \in 1..MaxPedidos |-> Livre]

\* the handler built Moto(placa, ...) and calls controller.cadastrar_moto
Pedido_cadastrar_moto(r, registro, placa) ==
    /\ pedidos[r].pc = "livre"
    /\ IF ~placa_valida(placa)
       THEN /\ ret' = Resultado("cadastrar_moto", "ValueError", 0)
            /\ UNCHANGED pedidos
       ELSE /\ pedidos' = [pedidos EXCEPT ![r] = [pc |-> "verificar", registro |-> registro,
                                                  placa |-> Placa_armazenada(placa)]]
            /\ ret' = Resultado("cadastrar_moto", "chamada", 0)
    /\ relatorio' = SemRelatorio
    /\ UNCHANGED <<template_vars, api_vars, analise_vars, motos, checklists, km_vars,
                   copia_vars, periodo_vars, db_vars>>

\* OficinaController.cadastrar_moto: the test of get_moto_por_placa
cadastrar_moto_verificar(r) ==
    /\ pedidos[r].pc = "verificar"
    /\ pedidos[r].registro = "memoria"
    /\ IF get_moto_por_placa(motos, pedidos[r].placa) # NoneVal
       THEN /\ ret' = Resultado("cadastrar_moto", "ignorada", 0)
            /\ pedidos' = [pedidos EXCEPT ![r] = Livre]
       ELSE /\ ret' = Resultado("cadastrar_moto", "verificada", 0)
            /\ pedidos' = [pedidos EXCEPT ![r].pc = "inserir"]
    /\ relatorio' = SemRelatorio
    /\ UNCHANGED <<template_vars, api_vars, analise_vars, motos, checklists, km_vars,
                   copia_vars, periodo_vars, db_vars>>

\* OficinaController.cadastrar_moto: self._motos.append(moto)
cadastrar_moto_inserir(r) ==
    /\ pedidos[r].pc = "inserir"
    /\ pedidos[r].registro = "memoria"
    /\ motos' = Append(motos, [placa |-> pedidos[r].placa])
    /\ ret' = Resultado("cadastrar_moto", "ok", 0)
    /\ pedidos' = [pedidos EXCEPT ![r] = Livre]
    /\ relatorio' = SemRelatorio
    /\ UNCHANGED <<template_vars, api_vars, analise_vars, checklists, km_vars,
                   copia_vars, periodo_vars, db_vars>>

\* OficinaControllerDB.cadastrar_moto: validar_placa_brasileira and the test
\* of MotoRepository.buscar_por_placa
DB_cadastrar_moto_verificar(r) ==
    /\ pedidos[r].pc = "verificar"
    /\ pedidos[r].registro = "banco"
    /\ IF \/ ~validar_placa_brasileira(pedidos[r].placa)
          \/ MotoRepository_buscar_por_placa(pedidos[r].placa) # {}
       THEN /\ ret' = Resultado("cadastrar_moto", "ValueError", 0)
            /\ pedidos' = [pedidos EXCEPT ![r] = Livre]
       ELSE /\ ret' = Resultado("cadastrar_moto", "verificada", 0)
            /\ pedidos' = [pedidos EXCEPT ![r].pc = "inserir"]
    /\ relatorio' = SemRelatorio
    /\ UNCHANGED <<template_vars, api_vars, analise_vars, motos, checklists, km_vars,
                   copia_vars, periodo_vars, db_vars>>

\* MotoRepository.criar: db.add and db.commit; the INSERT of a plate another
\* row already has breaks the unique index of placa and no row is written
MotoRepository_criar(r) ==
    /\ pedidos[r].pc = "inserir"
    /\ pedidos[r].registro = "banco"
    /\ IF \E m \in db_motos : m.placa = normalizar_placa(pedidos[r].placa)
       THEN /\ ret' = Resultado("cadastrar_moto", "IntegrityError", 0)
            /\ UNCHANGED db_vars
       ELSE /\ db_motos' = db_motos \cup
                   {MotoDB(db_seq.moto + 1, normalizar_placa(pedidos[r].placa))}
            /\ db_seq' = [db_seq EXCEPT !.moto = @ + 1]
            /\ ret' = Resultado("cadastrar_moto", "ok", 0)
            /\ UNCHANGED <<db_checklists, db_sujo>>
    /\ pedidos' = [pedidos EXCEPT ![r] = Livre]
    /\ relatorio' = SemRelatorio
    /\ UNCHANGED <<template_vars, api_vars, analise_vars, motos, checklists, km_vars,
                   copia_vars, periodo_vars>>

(***************************************************************************)
(* Specification of the in-memory registry                                 *)
(***************************************************************************)
PlacaInputs == {PlacaHifen, PlacaMinusc, PlacaBranca}
PlacaConsultas == {PlacaHifen, PlacaMinusc, PlacaMaiusc, PlacaBorda}
KmInputs == {-1, 15000, 70000}
DataInputs == {1, 2}

Init ==
    /\ motos = <<>>
    /\ checklists = <<>>
    /\ ret = Resultado("init", "ok", 0)
    /\ relatorio = SemRelatorio
    /\ km_novo = 0
    /\ km_anterior = NoneVal
    /\ km_res = SemValidacao
    /\ db_motos = {}
    /\ db_checklists = {}
    /\ db_seq = [moto |-> 0, checklist |-> 0]
    /\ db_sujo = {}
    /\ itens_devolvidos = SemLista
    /\ gerado = NoneVal
    /\ pedidos = SemPedidos
    /\ usuarios = UsuariosIniciais
    /\ estimativa = SemEstimativa
    /\ tipo_periodo = "dia"
    /\ data_referencia = 1

Next ==
    \/ \E p \in PlacaInputs : cadastrar_moto(p)
    \/ /\ Len(checklists) < MaxChecklists
       /\ \E p \in PlacaInputs, km \in KmInputs, d \in DataInputs :
             registrar_checklist(p, km, d, <<>>)
    \/ \E id \in 1..MaxChecklists : deletar_checklist_por_id(id)
    \/ \E p \in PlacaConsultas : deletar_moto(p)

Spec == Init /\ [][Next]_vars

(***************************************************************************)
(* Specification of the items of registered checklists                     *)
(***************************************************************************)
NomeOleo == <<"o", "l", "e", "o">>
NomeInputs == {NomeOleo, <<" ">>}
CustoInputs == {-1, 0, 2}
OptStatus == {NoneVal} \cup {Some(st) : st \in StatusItem}
OptCusto == {NoneVal} \cup {Some(cu) : cu \in CustoInputs}

\* number of items of the checklist an id designates (0 when there is none)
num_itens(checklist_id) ==
    IF indice_checklist(checklists, checklist_id) = 0 THEN 0
    ELSE Len(checklists[indice_checklist(checklists, checklist_id)].itens)

NextItens ==
    \/ /\ Len(checklists) < MaxChecklistsItens
       /\ registrar_checklist(PlacaMaiusc, 15000, 1, <<>>)
    \/ \E id \in 1..(MaxChecklistsItens + 1), n \in NomeInputs, st \in StatusItem,
          cu \in CustoInputs :
             /\ num_itens(id) < MaxItens
             /\ adicionar_item_checklist(id, n, st, cu)
    \/ \E id \in 1..(MaxChecklistsItens + 1), idx \in -1..MaxItens, st \in OptStatus,
          cu \in OptCusto : atualizar_item_checklist(id, idx, st, cu)

SpecItens == Init /\ [][NextItens]_vars

(***************************************************************************)
(* Specification of the payment state and the financial report             *)
(***************************************************************************)
ItensRegistro ==
    { <<ChecklistItem(NomeOleo, NECESSITA_TROCA, 1)>>,
      <<ChecklistItem(NomeOleo, NECESSITA_TROCA, 2),
        ChecklistItem(NomeOleo, PENDENTE, 1)>> }
OptBool == {NoneVal, Some(TRUE), Some(FALSE)}
OptCustoReal == {NoneVal, Some(-1), Some(1)}
OptData == {NoneVal} \cup {Some(d) : d \in DataInputs}

NextFin ==
    \/ /\ Len(checklists) < MaxChecklistsFin
       /\ \E d \in DataInputs, its \in ItensRegistro :
             registrar_checklist(PlacaMaiusc, 15000, d, its)
    \/ \E id \in 1..MaxChecklistsFin, pg \in OptBool, cr \in OptCustoReal :
          atualizar_status_checklist(id, NoneVal, pg, cr)
    \/ \E di \in OptData, df \in OptData : GerarRelatorio(di, df)

SpecFin == Init /\ [][NextFin]_vars

(***************************************************************************)
(* Specification of the finalized / paid / real-cost state of checklists   *)
(***************************************************************************)
NextStatus ==
    \/ /\ Len(checklists) < MaxChecklistsFin
       /\ registrar_checklist(PlacaMaiusc, 15000, 1, <<>>)
    \/ \E id \in 1..(MaxChecklistsFin + 1), f \in OptBool, pg \in OptBool,
          cr \in OptCustoReal \cup {Some(0)} :
             atualizar_status_checklist(id, f, pg, cr)

SpecStatus == Init /\ [][NextStatus]_vars

(***************************************************************************)
(* Specification of the mileage validator as a function of its inputs      *)
(***************************************************************************)
KmValores == {-1, 0, 1, 10000, 15000, 20000, 20001, 22000, 35000, 35001,
              40000, 50000, 50001, 65000, 65001, 70000}
OptKmAnterior == {NoneVal} \cup {Some(k) : k \in KmValores \ {-1}}

InitKm ==
    /\ motos = <<>>
    /\ checklists = <<>>
    /\ ret = Resultado("init", "ok", 0)
    /\ relatorio = SemRelatorio
    /\ km_novo \in KmValores
    /\ km_anterior \in OptKmAnterior
    /\ km_res = SemValidacao
    /\ db_motos = {}
    /\ db_checklists = {}
    /\ db_seq = [moto |-> 0, checklist |-> 0]
    /\ db_sujo = {}
    /\ itens_devolvidos = SemLista
    /\ gerado = NoneVal
    /\ pedidos = SemPedidos
    /\ usuarios = UsuariosIniciais
    /\ estimativa = SemEstimativa
    /\ tipo_periodo = "dia"
    /\ data_referencia = 1

ValidarKm ==
    /\ ~km_res.feito
    /\ km_res' = validar_km_revisao(km_novo, km_anterior)
    /\ UNCHANGED <<template_vars, concorrencia_vars, api_vars, analise_vars, motos, checklists, ret, relatorio, km_novo, km_anterior, db_vars, copia_vars, periodo_vars>>

NovaEntradaKm ==
    /\ km_res.feito
    /\ km_novo' \in KmValores
    /\ km_anterior' \in OptKmAnterior
    /\ km_res' = SemValidacao
    /\ UNCHANGED <<template_vars, concorrencia_vars, api_vars, analise_vars, motos, checklists, ret, relatorio, db_vars, copia_vars, periodo_vars>>

NextKm == ValidarKm \/ NovaEntradaKm

SpecKm == InitKm /\ [][NextKm]_vars

(***************************************************************************)
(* Specification of the database-backed registry                           *)
(***************************************************************************)
MaxChecklistsDB == 2
MaxSeqDB == 3
PlacaCurta == <<"a", "b", "1">>
PlacaInputsDB == {PlacaHifen, PlacaMinusc, PlacaOutra, PlacaCurta}
PlacaConsultasDB == {PlacaEspaco, PlacaMaiusc, PlacaOutra}
ItensRegistroDB == {<<>>, <<ChecklistItem(NomeOleo, NECESSITA_TROCA, 2)>>}

NextDB ==
    \/ /\ db_seq.moto < MaxSeqDB
       /\ \E p \in PlacaInputsDB : DB_cadastrar_moto(p)
    \/ /\ db_seq.moto < MaxSeqDB
       /\ db_seq.checklist < MaxSeqDB
       /\ Cardinality(db_checklists) < MaxChecklistsDB
       /\ \E p \in PlacaInputsDB, km \in KmInputs, d \in DataInputs,
             its \in ItensRegistroDB : DB_registrar_checklist(p, km, d, its)
    \/ \E id \in 1..MaxSeqDB : DB_deletar_checklist_por_id(id)
    \/ \E p \in PlacaConsultasDB : DB_deletar_moto(p)

SpecDB == Init /\ [][NextDB]_vars

(***************************************************************************)
(* Specification of the items and the payment state of database checklists *)
(***************************************************************************)
\* one checklist with one item is registered; id 2 designates no checklist
NextDBEstado ==
    \/ /\ db_seq.checklist = 0
       /\ DB_registrar_checklist(PlacaMaiusc, 15000, 1,
                                 <<ChecklistItem(NomeOleo, PENDENTE, 0)>>)
    \/ \E id \in {1, 2}, idx \in {-1, 0, 1}, st \in OptStatus,
          cu \in OptCusto : DB_atualizar_item_checklist(id, idx, st, cu)
    \/ \E id \in {1, 2}, f \in OptBool, pg \in OptBool,
          cr \in OptCustoReal : DB_atualizar_status_checklist(id, f, pg, cr)
    \/ FecharSessao

SpecDBEstado == Init /\ [][NextDBEstado]_vars

(***************************************************************************)
(* Specification of item updates by position, on both controllers: one     *)
(* checklist is registered in each, id 2 designates no checklist           *)
(***************************************************************************)
OptStatusIndice == {NoneVal, Some(CONCLUIDO)}
OptCustoIndice == {NoneVal, Some(2)}

NextIndice ==
    \/ /\ Len(checklists) = 0
       /\ registrar_checklist(PlacaMaiusc, 15000, 1, <<>>)
    \/ \E st \in {PENDENTE, NECESSITA_TROCA} :
          /\ num_itens(1) < MaxItens
          /\ adicionar_item_checklist(1, NomeOleo, st, 0)
    \/ \E id \in {1, 2}, idx \in -1..MaxItens, st \in OptStatusIndice,
          cu \in OptCustoIndice : atualizar_item_checklist(id, idx, st, cu)
    \/ /\ db_seq.checklist = 0
       /\ DB_registrar_checklist(PlacaMaiusc, 15000, 1,
                                 <<ChecklistItem(NomeOleo, PENDENTE, 0)>>)
    \/ \E id \in {1, 2}, idx \in -1..MaxItens, st \in OptStatusIndice,
          cu \in OptCustoIndice : DB_atualizar_item_checklist(id, idx, st, cu)

SpecIndice == Init /\ [][NextIndice]_vars

(***************************************************************************)
(* Specification of the counts of the financial report: two vehicles,      *)
(* checklists that become paid                                             *)
(***************************************************************************)
NextRel ==
    \/ /\ Len(checklists) < MaxChecklistsFin
       /\ \E p \in {PlacaMaiusc, PlacaOutra}, d \in DataInputs :
             registrar_checklist(p, 15000, d,
                                 <<ChecklistItem(NomeOleo, NECESSITA_TROCA, 3)>>)
    \/ \E id \in 1..MaxChecklistsFin :
          atualizar_status_checklist(id, NoneVal, Some(TRUE), NoneVal)
    \/ \E di \in OptData, df \in OptData : GerarRelatorio(di, df)

SpecRel == Init /\ [][NextRel]_vars

(***************************************************************************)
(* Specification of the period of the financial report, on both            *)
(* controllers                                                             *)
(***************************************************************************)
NextPeriodo ==
    \/ /\ Len(checklists) < MaxChecklistsFin
       /\ \E d \in DataInputs : registrar_checklist(PlacaMaiusc, 15000, d, <<>>)
    \/ \E di \in OptData, df \in OptData : GerarRelatorio(di, df)
    \/ /\ Cardinality(db_checklists) < MaxChecklistsDB
       /\ \E d \in DataInputs, its \in ItensRegistroDB :
             DB_registrar_checklist(PlacaMaiusc, 15000, d, its)
    \/ \E di \in OptData, df \in OptData : DB_GerarRelatorio(di, df)

SpecPeriodo == Init /\ [][NextPeriodo]_vars

(***************************************************************************)
(* Specification of the financial report of a day, week, month or year     *)
(***************************************************************************)
TiposPeriodo == {"dia", "semana", "mes", "ano", "trimestre"}
MesesReferencia == {<<2024, 2>>, <<2025, 2>>, <<2024, 12>>, <<2025, 1>>,
                    <<2000, 2>>, <<2100, 2>>}
DatasReferencia ==
    UNION {{date(ym[1], ym[2], d) : d \in 1..dias_no_mes(ym[1], ym[2])} :
              ym \in MesesReferencia}

InitPorPeriodo ==
    /\ motos = <<>>
    /\ checklists = <<>>
    /\ ret = Resultado("init", "ok", 0)
    /\ relatorio = SemRelatorio
    /\ km_novo = 0
    /\ km_anterior = NoneVal
    /\ km_res = SemValidacao
    /\ db_motos = {}
    /\ db_checklists = {}
    /\ db_seq = [moto |-> 0, checklist |-> 0]
    /\ db_sujo = {}
    /\ itens_devolvidos = SemLista
    /\ gerado = NoneVal
    /\ pedidos = SemPedidos
    /\ usuarios = UsuariosIniciais
    /\ estimativa = SemEstimativa
    /\ tipo_periodo \in TiposPeriodo
    /\ data_referencia \in DatasReferencia

NovaEntradaPeriodo ==
    /\ ret.op = "relatorio_financeiro_por_periodo"
    /\ tipo_periodo' \in TiposPeriodo
    /\ data_referencia' \in DatasReferencia
    /\ ret' = Resultado("entrada", "ok", 0)
    /\ relatorio' = SemRelatorio
    /\ UNCHANGED <<template_vars, concorrencia_vars, api_vars, analise_vars, motos, checklists, km_vars, copia_vars, db_vars>>

NextPorPeriodo ==
    \/ /\ Len(checklists) = 0
       /\ registrar_checklist(PlacaMaiusc, 15000, date(2024, 2, 29), <<>>)
    \/ relatorio_financeiro_por_periodo
    \/ NovaEntradaPeriodo

SpecPorPeriodo == InitPorPeriodo /\ [][NextPorPeriodo]_vars

(***************************************************************************)
(* Specification of registrations that draw an advisory (database-backed   *)
(* controller): mileage 25,000 above the prior one, total above 5,000      *)
(***************************************************************************)
KmInputsAlerta == {15000, 40000, 70000}
ItensAlerta == {<<>>, <<ChecklistItem(NomeOleo, NECESSITA_TROCA, 6000)>>}

NextAlerta ==
    \/ /\ db_seq.checklist < MaxSeqDB
       /\ Cardinality(db_checklists) < MaxChecklistsDB
       /\ \E km \in KmInputsAlerta, d \in DataInputs, its \in ItensAlerta :
             DB_registrar_checklist(PlacaMaiusc, km, d, its)
    \/ \E id \in 1..MaxSeqDB : DB_deletar_checklist_por_id(id)

SpecAlerta == Init /\ [][NextAlerta]_vars

(***************************************************************************)
(* Specification of checklists constructed with their payment state        *)
(***************************************************************************)
NextConstrucao ==
    \/ /\ Len(checklists) < MaxChecklistsFin
       /\ \E km \in {-1, 15000}, pg \in BOOLEAN, cr \in OptCustoReal :
             registrar_checklist_construido(PlacaMaiusc, km, 1, FALSE, pg, cr)
    \/ \E id \in 1..MaxChecklistsFin, cr \in OptCustoReal \cup {Some(0)} :
          atualizar_status_checklist(id, NoneVal, NoneVal, cr)

SpecConstrucao == Init /\ [][NextConstrucao]_vars

(***************************************************************************)
(* Specification of a caller that changes the list Checklist.itens gave it *)
(***************************************************************************)
ItemNovo == ChecklistItem(NomeOleo, CONCLUIDO, 0)

NextCopia ==
    \/ /\ Len(checklists) = 0
       /\ registrar_checklist(PlacaMaiusc, 15000, 1, <<>>)
    \/ \E st \in {PENDENTE, NECESSITA_TROCA} :
          /\ num_itens(1) < MaxItens
          /\ adicionar_item_checklist(1, NomeOleo, st, 0)
    \/ ObterItens(1)
    \/ /\ Len(itens_devolvidos.itens) <= MaxItens
       /\ lista_append(ItemNovo)
    \/ lista_pop
    \/ lista_reverse

SpecCopia == Init /\ [][NextCopia]_vars

(***************************************************************************)
(* Specification of the linear cost model                                  *)
(***************************************************************************)
MaxChecklistsEst == 3
KmEstimativa == {0, 10, 20}
KmFuturos == {0, 30}
ItensEstimativa == {<<>>, <<ChecklistItem(NomeOleo, NECESSITA_TROCA, 2)>>}

NextEstimativa ==
    \/ /\ Len(checklists) < MaxChecklistsEst
       /\ \E km \in KmEstimativa, its \in ItensEstimativa :
             registrar_checklist(PlacaMaiusc, km, 1, its)
    \/ EstimarCustoPorKm
    \/ \E km \in KmFuturos : PreverCustoParaKm(km)

SpecEstimativa == Init /\ [][NextEstimativa]_vars

(***************************************************************************)
(* Specifications of the template functions                                *)
(***************************************************************************)
MargemKm == 6
LimitesConsultados == {0} \cup {BlocosPorKm[b].limite : b \in 1..Len(BlocosPorKm)}
KmConsultas == {t + d : t \in LimitesConsultados, d \in (0 - MargemKm)..MargemKm}

NextItensPorKm == \E km \in KmConsultas : ObterItensPorKm(km)

SpecItensPorKm == Init /\ [][NextItensPorKm]_vars

MargemKmTemplate == 4
KmTemplates == {t + d : t \in LimitesConsultados, d \in (0 - MargemKmTemplate)..MargemKmTemplate}

NextTemplate ==
    \/ \E km \in KmTemplates, d \in {NoneVal, Some(1)} :
          CriarChecklistPadrao(PlacaMaiusc, km, d, 2)
    \/ \E km \in KmTemplates, d \in {NoneVal, Some(1)} :
          CriarChecklistAdaptativo(PlacaMaiusc, km, d, 2)

SpecTemplate == Init /\ [][NextTemplate]_vars

(***************************************************************************)
(* Specification of the addition of items to a checklist                   *)
(***************************************************************************)
CategoriaMotor == <<" ", "M", "o", "t", "o", "r">>
ObjetosAdicionados ==
    {Objeto("ChecklistItem", ChecklistItem_categoria(NomeOleo, CategoriaMotor, PENDENTE, 2)),
     Objeto("ChecklistItem", ChecklistItem(NomeOleo, CONCLUIDO, 0)),
     Objeto("str", ChecklistItem(NomeOleo, PENDENTE, 0))}

NextAdicionar ==
    \/ /\ Len(checklists) < MaxChecklistsItens
       /\ registrar_checklist(PlacaMaiusc, 15000, 1, <<>>)
    \/ \E id \in 1..(MaxChecklistsItens + 1), n \in NomeInputs,
          st \in {PENDENTE, NECESSITA_TROCA}, cu \in {-1, 2} :
             /\ num_itens(id) < MaxItens
             /\ adicionar_item_checklist(id, n, st, cu)
    \/ \E id \in 1..MaxChecklistsItens, o \in ObjetosAdicionados :
          /\ num_itens(id) < MaxItens
          /\ Checklist_adicionar_item(id, o)

SpecAdicionar == Init /\ [][NextAdicionar]_vars

(***************************************************************************)
(* Specification of the database-backed API                                *)
(***************************************************************************)
CredenciaisInputs ==
    {SemCredencial,
     Credencial(TRUE, FALSE, Some("ana")),
     Credencial(TRUE, TRUE, NoneVal),
     Credencial(TRUE, TRUE, Some("ana")),
     Credencial(TRUE, TRUE, Some("bia")),
     Credencial(TRUE, TRUE, Some("caio")),
     Credencial(TRUE, TRUE, Some("zed"))}
PlacaSoLetras == <<"I", "N", "V", "A", "L", "I", "D">>
PlacaSimbolo == <<"A", "B", "*", "1", "2", "3", "4">>
PlacasAPI == {PlacaMaiusc, PlacaSoLetras, PlacaSimbolo}
ItemAPI == ChecklistItem(NomeOleo, PENDENTE, 0)

MaxSeqAPI == 1

\* a request to one of the vehicle, checklist, analytics or financial routes
RequisicaoAPI(cred) ==
    \/ API_listar_motos(cred)
    \/ \E rota \in RotasDeConsulta : API_consulta(rota, cred)
    \/ /\ db_seq.moto < MaxSeqAPI
       /\ \E p \in PlacasAPI : API_cadastrar_moto(cred, p)
    \/ API_deletar_moto(cred, PlacaMaiusc)
    \/ /\ db_seq.checklist < MaxSeqAPI
       /\ API_criar_checklist(cred, PlacaMaiusc, 15000, 1, <<ItemAPI>>)
    \/ API_atualizar_status_checklist(cred, 1, NoneVal, Some(TRUE), NoneVal)
    \/ API_atualizar_item_checklist(cred, 1, 0, Some(CONCLUIDO), NoneVal)
    \/ \E id \in 1..MaxSeqAPI : API_deletar_checklist(cred, id)
    \/ API_obter_relatorio_financeiro(cred, NoneVal, NoneVal)

NextAPI == \E cred \in CredenciaisInputs : RequisicaoAPI(cred)

SpecAPI == Init /\ [][NextAPI]_vars

(***************************************************************************)
(* Specification of the registry under one controller or the other          *)
(***************************************************************************)
\* the program works with the in-memory controller or with the database one
SoMemoria == db_motos = {} /\ db_checklists = {} /\ db_seq = [moto |-> 0, checklist |-> 0]
SoBanco == motos = <<>> /\ checklists = <<>>

NextIntegridade ==
    \/ SoMemoria /\ \E p \in PlacaInputs : cadastrar_moto(p)
    \/ /\ SoMemoria
       /\ Len(checklists) < MaxChecklists
       /\ \E p \in PlacaInputs, km \in KmInputs, d \in DataInputs :
             registrar_checklist(p, km, d, <<>>)
    \/ SoMemoria /\ \E id \in 1..MaxChecklists : deletar_checklist_por_id(id)
    \/ SoMemoria /\ \E p \in PlacaConsultas : deletar_moto(p)
    \/ /\ SoBanco
       /\ db_seq.moto < MaxSeqDB
       /\ \E p \in PlacaInputsDB : DB_cadastrar_moto(p)
    \/ /\ SoBanco
       /\ db_seq.moto < MaxSeqDB
       /\ db_seq.checklist < MaxSeqDB
       /\ Cardinality(db_checklists) < MaxChecklistsDB
       /\ \E p \in PlacaInputsDB, km \in KmInputs, d \in DataInputs :
             DB_registrar_checklist(p, km, d, <<>>)
    \/ SoBanco /\ \E id \in 1..MaxSeqDB : DB_deletar_checklist_por_id(id)
    \/ SoBanco /\ \E p \in PlacaConsultasDB : DB_deletar_moto(p)

SpecIntegridade == Init /\ [][NextIntegridade]_vars

(***************************************************************************)
(* Specification of registrations in arbitrary order of revision date       *)
(***************************************************************************)
KmOrdem == {15000, 20000, 70000}

NextOrdem ==
    /\ db_seq.moto < MaxSeqDB
    /\ db_seq.checklist < MaxSeqDB
    /\ Cardinality(db_checklists) < MaxChecklistsDB
    /\ \E p \in {PlacaMaiusc, PlacaOutra}, km \in KmOrdem, d \in DataInputs :
          DB_registrar_checklist(p, km, d, <<>>)

SpecOrdem == Init /\ [][NextOrdem]_vars

(***************************************************************************)
(* Specification of concurrent registrations of vehicles                    *)
(***************************************************************************)
MaxMotosConcorrencia == 2
PlacasConcorrencia == {PlacaMinusc, PlacaMaiusc, PlacaOutra, PlacaBranca}

NextConcorrencia ==
    \/ /\ Len(motos) < MaxMotosConcorrencia
       /\ \E r \in 1..MaxPedidos, p \in PlacasConcorrencia :
             Pedido_cadastrar_moto(r, "memoria", p)
    \/ /\ db_seq.moto < MaxMotosConcorrencia
       /\ \E r \in 1..MaxPedidos, p \in PlacasConcorrencia :
             Pedido_cadastrar_moto(r, "banco", p)
    \/ \E r \in 1..MaxPedidos : cadastrar_moto_verificar(r)
    \/ \E r \in 1..MaxPedidos : cadastrar_moto_inserir(r)
    \/ \E r \in 1..MaxPedidos : DB_cadastrar_moto_verificar(r)
    \/ \E r \in 1..MaxPedidos : MotoRepository_criar(r)

SpecConcorrencia == Init /\ [][NextConcorrencia]_vars

(***************************************************************************)
(* Properties                                                              *)
(***************************************************************************)
\* sum of f over a finite set of indices
RECURSIVE SomaSobre(_, _)
SomaSobre(S, f) ==
    IF S = {} THEN 0
    ELSE LET x == CHOOSE y \in S : TRUE
         IN f[x] + SomaSobre(S \ {x}, f)

IndicesTroca(c) == {j \in 1..Len(c.itens) : c.itens[j].status = NECESSITA_TROCA}
SomaTroca(c) ==
    SomaSobre(IndicesTroca(c), [j \in 1..Len(c.itens) |-> c.itens[j].custo_estimado])

\* C1: for every registered checklist, after any additions and status / cost
\* updates of its items, custo_total_estimado() is the sum of custo_estimado
\* over exactly the items whose status is NECESSITA_TROCA.
C1_CustoTotalSomenteTroca ==
    \A i \in 1..Len(checklists) :
        custo_total_estimado(checklists[i]) = SomaTroca(checklists[i])

\* a checklist holds a costed item to replace next to a costed item in another
\* status, right after an item update
C1_Witness ==
    /\ ret.op = "atualizar_item_checklist"
    /\ ret.res = "True"
    /\ \E i \in 1..Len(checklists) :
          \E j, k \in 1..Len(checklists[i].itens) :
             /\ checklists[i].itens[j].status = NECESSITA_TROCA
             /\ checklists[i].itens[j].custo_estimado > 0
             /\ checklists[i].itens[k].status # NECESSITA_TROCA
             /\ checklists[i].itens[k].custo_estimado > 0

EmEscopo(c, data_inicio, data_fim) ==
    /\ data_inicio # NoneVal => c.data_revisao >= ValueOf(data_inicio)
    /\ data_fim # NoneVal => c.data_revisao <= ValueOf(data_fim)

IndicesEscopo(data_inicio, data_fim) ==
    {i \in 1..Len(checklists) : EmEscopo(checklists[i], data_inicio, data_fim)}

\* C2: the financial report has receitas = sum of the estimated totals of the
\* paid checklists in scope, custos = sum of custo_real over every checklist
\* in scope that has one (paid or not), and lucro = receitas - custos.
C2_RelatorioFinanceiro ==
    relatorio.feito =>
        LET E == IndicesEscopo(relatorio.data_inicio, relatorio.data_fim)
            pagos == {i \in E : checklists[i].pago}
            comReal == {i \in E : checklists[i].custo_real # NoneVal}
            est == [i \in 1..Len(checklists) |-> SomaTroca(checklists[i])]
            real == [i \in 1..Len(checklists) |->
                        IF checklists[i].custo_real # NoneVal
                        THEN ValueOf(checklists[i].custo_real) ELSE 0]
        IN /\ relatorio.receitas = SomaSobre(pagos, est)
           /\ relatorio.custos = SomaSobre(comReal, real)
           /\ relatorio.lucro = relatorio.receitas - relatorio.custos

\* a report with revenue, over a scope that holds a paid checklist without a
\* real cost and an unpaid checklist with one
C2_Witness ==
    /\ relatorio.feito
    /\ relatorio.receitas > 0
    /\ LET E == IndicesEscopo(relatorio.data_inicio, relatorio.data_fim)
       IN /\ \E i \in E : ~checklists[i].pago /\ checklists[i].custo_real # NoneVal
          /\ \E i \in E : checklists[i].pago /\ checklists[i].custo_real = NoneVal

\* C3: validar_km_revisao rejects a negative mileage, a mileage below the
\* previous one and an increase above 50,000; accepts with an advisory an
\* increase above 20,000 and below 50,000; accepts silently an increase of
\* 0..20,000; and without a previous checklist accepts every mileage >= 0
\* silently.
C3_ValidarKm ==
    km_res.feito =>
        /\ km_novo < 0 => ~km_res.valida
        /\ (km_anterior = NoneVal /\ km_novo >= 0) =>
              (km_res.valida /\ km_res.msg = "None")
        /\ km_anterior # NoneVal =>
              LET d == km_novo - ValueOf(km_anterior)
              IN /\ d < 0 => ~km_res.valida
                 /\ d > 50000 => ~km_res.valida
                 /\ (km_novo >= 0 /\ d > 20000 /\ d < 50000) =>
                       (km_res.valida /\ km_res.msg # "None")
                 /\ (km_novo >= 0 /\ d >= 0 /\ d <= 20000) =>
                       (km_res.valida /\ km_res.msg = "None")

\* the validator has answered with an advisory for an increase of 25,000
C3_Witness ==
    /\ km_res.feito
    /\ km_anterior = Some(15000)
    /\ km_novo = 40000
    /\ km_res.valida
    /\ km_res.msg = "alerta"

\* the checklists of the vehicle stored under plate p
DoVeiculo(cs, p) == {i \in 1..Len(cs) : cs[i].placa = p}

\* the checklists of the vehicle with the latest revision date
MaisRecentes(cs, p) ==
    {i \in DoVeiculo(cs, p) : \A j \in DoVeiculo(cs, p) :
        cs[i].data_revisao >= cs[j].data_revisao}

\* the mileage check hard-fails against the vehicle's most recent checklist
FalhaKm(cs, p, km) ==
    \E i \in MaisRecentes(cs, p) :
        km < cs[i].km_atual \/ km - cs[i].km_atual > LimiteKmErro

\* the mileage check hard-fails against a most recent checklist row of the
\* vehicle of plate p
DB_FalhaKm(p, km) ==
    \E c \in primeiros_por_data_desc(ChecklistRepository_buscar_por_moto(p)) :
        km < c.km_atual \/ km - c.km_atual > LimiteKmErro

\* C4: a registration whose mileage is lower than the mileage of the
\* vehicle's prior checklist, or more than 50,000 above it, is rejected, and
\* the rejected call leaves the registered vehicles and checklists as they
\* were (database-backed controller, which validates before it writes).
C4_RegistroRejeitaKm ==
    [][\A p \in PlacaInputsDB, km \in KmInputs, d \in DataInputs,
          its \in ItensRegistroDB :
          ( /\ placa_valida(p)
            /\ km >= 0
            /\ DB_FalhaKm(Placa_armazenada(p), km)
            /\ DB_registrar_checklist(p, km, d, its) )
          => ( /\ ret'.res = "ValueError"
               /\ db_motos' = db_motos
               /\ db_checklists' = db_checklists )]_vars

\* C4 on the in-memory controller: the same statement for
\* OficinaController.registrar_checklist.
C4_RegistroRejeitaKm_Memoria ==
    [][\A p \in PlacaInputs, km \in KmInputs, d \in DataInputs :
          ( /\ placa_valida(p)
            /\ km >= 0
            /\ FalhaKm(checklists, Placa_armazenada(p), km)
            /\ registrar_checklist(p, km, d, <<>>) )
          => ( /\ ret'.res = "ValueError"
               /\ motos' = motos
               /\ checklists' = checklists )]_vars

\* C5: for a vehicle with at least one registered checklist,
\* obter_ultimo_checklist returns a checklist of that vehicle whose revision
\* date is the latest among the vehicle's checklists.
C5_UltimoEhMaisRecente ==
    \A i \in 1..Len(checklists) :
        LET p == checklists[i].placa
            u == obter_ultimo_checklist(checklists, p)
        IN /\ u # NoneVal
           /\ \A j \in DoVeiculo(checklists, p) :
                 ValueOf(u).data_revisao >= checklists[j].data_revisao

\* C6: no two registered checklists have the same id, so the id returned by
\* a registration designates the checklist that registration stored.
C6_IdsUnicos ==
    \A i, j \in 1..Len(checklists) :
        i # j => checklists[i].id # checklists[j].id

\* C7: the registry never holds two vehicles whose normalized identifiers
\* are equal, and a lookup by any spelling finds the vehicle registered
\* under another spelling of the same identifier.
C7_PlacaNormalizadaUnica ==
    /\ \A i, j \in 1..Len(motos) :
          i # j => normalizar_placa(motos[i].placa) # normalizar_placa(motos[j].placa)
    /\ \A i \in 1..Len(motos) :
          \A p \in PlacaInputs \cup PlacaConsultas :
             normalizar_placa(p) = normalizar_placa(motos[i].placa)
                => get_moto_por_placa(motos, p) # NoneVal

\* C8: when deletar_moto reports success, the vehicle the lookup found is no
\* longer registered, none of its checklists remains, and the vehicles and
\* checklists of other identifiers are unchanged.
C8_DelecaoEmCascata ==
    [][\A p \in PlacaConsultas :
          (deletar_moto(p) /\ ret'.res = "True")
          => LET alvo == ValueOf(get_moto_por_placa(motos, p)).placa
             IN /\ motos' = SelectSeq(motos, LAMBDA m : m.placa # alvo)
                /\ checklists' = SelectSeq(checklists, LAMBDA c : c.placa # alvo)
                /\ get_moto_por_placa(motos', p) = NoneVal]_vars

\* C9: an item update that carries a valid new status and a negative
\* estimated cost fails, and the item keeps the status and the cost it had.
C9_CustoNegativoSemEfeito ==
    [][\A id \in 1..(MaxChecklistsItens + 1), idx \in 0..(MaxItens - 1),
          st \in StatusItem, cu \in {c \in CustoInputs : c < 0} :
          ( /\ idx < num_itens(id)
            /\ atualizar_item_checklist(id, idx, Some(st), Some(cu)) )
          => ( /\ ret'.res = "ValueError"
               /\ checklists' = checklists )]_vars

\* C10: atualizar_status_checklist with a negative custo_real fails and
\* leaves finalizado, pago and custo_real of the checklist unchanged, for
\* any values of finalizado and pago given with it.
C10_CustoRealNegativoBloqueia ==
    [][\A id \in 1..MaxChecklistsFin, f \in OptBool, pg \in OptBool :
          ( /\ indice_checklist(checklists, id) # 0
            /\ atualizar_status_checklist(id, f, pg, Some(-1)) )
          => ( /\ ret'.res = "ValueError"
               /\ checklists' = checklists )]_vars

\* number of item rows of the checklist row an id designates (0 when none)
DB_num_itens(checklist_id) ==
    IF ChecklistRepository_buscar_por_id(checklist_id) = {} THEN 0
    ELSE Len((CHOOSE c \in ChecklistRepository_buscar_por_id(checklist_id) : TRUE).itens)

\* C11: an item update whose index is negative or not smaller than the number
\* of items, or whose checklist id is not registered, returns False (it does
\* not raise) and changes no item of any checklist, on both controllers.
C11_IndiceInvalidoRetornaFalse ==
    [][\A id \in {1, 2}, idx \in -1..MaxItens, st \in OptStatusIndice,
          cu \in OptCustoIndice :
          /\ ( /\ \/ indice_checklist(checklists, id) = 0
                  \/ idx < 0
                  \/ idx >= num_itens(id)
               /\ atualizar_item_checklist(id, idx, st, cu) )
             => ( /\ ret'.res = "False"
                  /\ checklists' = checklists )
          /\ ( /\ \/ ChecklistRepository_buscar_por_id(id) = {}
                  \/ idx < 0
                  \/ idx >= DB_num_itens(id)
               /\ DB_atualizar_item_checklist(id, idx, st, cu) )
             => ( /\ ret'.res = "False"
                  /\ db_checklists' = db_checklists )]_vars

\* an update of checklist 1 has just returned False while checklist 1 is
\* registered with items in both controllers: its index was out of bounds
C11_Witness ==
    /\ ret.op = "atualizar_item_checklist"
    /\ ret.res = "False"
    /\ ret.id = 1
    /\ num_itens(1) > 0
    /\ DB_num_itens(1) > 0

\* C12: in every financial report quantidade_servicos is the number of
\* checklists in scope, checklists_pagos + checklists_nao_pagos equals it,
\* quantidade_motos is the number of distinct plates among the checklists in
\* scope, and ticket_medio is receitas / quantidade_servicos, or 0 when no
\* checklist is in scope.
C12_ContagensDoRelatorio ==
    relatorio.feito =>
        LET E == IndicesEscopo(relatorio.data_inicio, relatorio.data_fim)
        IN /\ relatorio.quantidade_servicos = Cardinality(E)
           /\ relatorio.checklists_pagos + relatorio.checklists_nao_pagos
                 = relatorio.quantidade_servicos
           /\ relatorio.checklists_pagos = Cardinality({i \in E : checklists[i].pago})
           /\ relatorio.quantidade_motos = Cardinality({checklists[i].placa : i \in E})
           /\ relatorio.ticket_medio.den > 0
           /\ IF E = {} THEN relatorio.ticket_medio.num = 0
              ELSE relatorio.ticket_medio.num * Cardinality(E)
                      = relatorio.receitas * relatorio.ticket_medio.den

\* a report over two checklists of one vehicle, one of them paid: the
\* average ticket is 3 / 2
C12_Witness ==
    /\ relatorio.feito
    /\ relatorio.quantidade_servicos = 2
    /\ relatorio.quantidade_motos = 1
    /\ relatorio.checklists_pagos = 1
    /\ relatorio.ticket_medio = [num |-> 3, den |-> 2]

\* a report over no checklist while checklists are registered: the average
\* ticket is 0
C12_WitnessVazio ==
    /\ relatorio.feito
    /\ Len(checklists) > 0
    /\ relatorio.quantidade_servicos = 0
    /\ relatorio.ticket_medio.num = 0

\* the ids of the checklist rows whose revision date lies in the period
IdsEscopoDB(data_inicio, data_fim) ==
    {c.id : c \in {r \in db_checklists : EmEscopo(r, data_inicio, data_fim)}}

\* C13: a financial report for (start, end) runs over exactly the registered
\* checklists whose revision date d has start <= d <= end, an omitted bound
\* leaving its side open, on both controllers.
C13_EscopoDoPeriodo ==
    relatorio.feito =>
        LET esc == relatorio.escopo
        IN IF ret.op = "relatorio_financeiro"
           THEN LET E == IndicesEscopo(relatorio.data_inicio, relatorio.data_fim)
                IN /\ Len(esc) = Cardinality(E)
                   /\ \A i \in E : \E k \in 1..Len(esc) : esc[k] = checklists[i]
                   /\ \A k \in 1..Len(esc) : \E i \in E : esc[k] = checklists[i]
           ELSE LET I == IdsEscopoDB(relatorio.data_inicio, relatorio.data_fim)
                IN /\ Len(esc) = Cardinality(I)
                   /\ {esc[k].id : k \in 1..Len(esc)} = I

\* a report for the period [1, 1] over a registry that holds a checklist
\* dated 1 (in the period, on both of its bounds) and one dated 2 (outside)
C13_Witness ==
    /\ relatorio.feito
    /\ ret.op = "relatorio_financeiro"
    /\ relatorio.data_inicio = Some(1)
    /\ relatorio.data_fim = Some(1)
    /\ relatorio.quantidade_servicos = 1
    /\ \E i \in 1..Len(checklists) : checklists[i].data_revisao = 2

\* the same on the database-backed controller, for the period [2, None]
C13_WitnessDB ==
    /\ relatorio.feito
    /\ ret.op = "relatorio_financeiro_db"
    /\ relatorio.data_inicio = Some(2)
    /\ relatorio.data_fim = NoneVal
    /\ relatorio.quantidade_servicos = 1
    /\ \E c \in db_checklists : c.data_revisao = 1

\* C14: relatorio_financeiro_por_periodo reports on [ref, ref] for 'dia', on
\* the Monday on or before ref through the Sunday six days later for
\* 'semana', on the first through the last day of ref's month for 'mes' (29
\* February in 2024, 28 February in 2025, 31 December), on 1 January
\* through 31 December of ref's year for 'ano'; the window contains ref; any
\* other kind raises and gives no report.
C14_JanelaDoPeriodo ==
    ret.op = "relatorio_financeiro_por_periodo" =>
        IF tipo_periodo \in {"dia", "semana", "mes", "ano"}
        THEN /\ ret.res = "ok"
             /\ relatorio.feito
             /\ LET r == data_referencia
                    i == ValueOf(relatorio.data_inicio)
                    f == ValueOf(relatorio.data_fim)
                IN /\ i <= r /\ r <= f
                   /\ tipo_periodo = "dia" => (i = r /\ f = r)
                   /\ tipo_periodo = "semana" =>
                         (i % 7 = 1 /\ r - i <= 6 /\ f = i + 6)
                   /\ tipo_periodo = "mes" =>
                         /\ date_year(i) = date_year(r) /\ date_month(i) = date_month(r)
                         /\ date_day(i) = 1
                         /\ date_year(f) = date_year(r) /\ date_month(f) = date_month(r)
                         /\ date_month(f + 1) # date_month(r)
                         /\ (date_year(r) = 2024 /\ date_month(r) = 2) => date_day(f) = 29
                         /\ (date_year(r) = 2025 /\ date_month(r) = 2) => date_day(f) = 28
                         /\ date_month(r) = 12 => date_day(f) = 31
                   /\ tipo_periodo = "ano" =>
                         /\ date_year(i) = date_year(r) /\ date_month(i) = 1
                         /\ date_day(i) = 1
                         /\ date_year(f) = date_year(r) /\ date_month(f) = 12
                         /\ date_day(f) = 31
        ELSE /\ ret.res = "ValueError"
             /\ ~relatorio.feito

\* the month report for 2024-02-15 (ordinal 738931) has the window
\* 2024-02-01 (738917) through 2024-02-29 (738945)
C14_Witness ==
    /\ ret.op = "relatorio_financeiro_por_periodo"
    /\ tipo_periodo = "mes"
    /\ data_referencia = 738931
    /\ relatorio.feito
    /\ relatorio.data_inicio = Some(738917)
    /\ relatorio.data_fim = Some(738945)
    /\ relatorio.quantidade_servicos = 1

\* the increase over every most recent checklist row of the vehicle of
\* plate p is above 20,000 and not above 50,000
DB_AvisoKm(p, km) ==
    /\ ChecklistRepository_buscar_por_moto(p) # {}
    /\ \A c \in primeiros_por_data_desc(ChecklistRepository_buscar_por_moto(p)) :
          km - c.km_atual > LimiteKmAlerta /\ km - c.km_atual <= LimiteKmErro

\* the items to replace cost more than 5,000 in total
AvisoCusto(its) ==
    SomaSobre({j \in 1..Len(its) : its[j].status = NECESSITA_TROCA},
              [j \in 1..Len(its) |-> its[j].custo_estimado]) > AlertaLimiteCusto

\* C15: a registration whose mileage increase is in the advisory range, or
\* whose estimated total exceeds the alert threshold, and whose mileage does
\* not hard-fail, succeeds: it returns a new id and the checklist is stored
\* under that id.
C15_AvisoNaoBloqueia ==
    [][\A km \in KmInputsAlerta, d \in DataInputs, its \in ItensAlerta :
          ( /\ DB_AvisoKm(PlacaMaiusc, km) \/ AvisoCusto(its)
            /\ ~DB_FalhaKm(PlacaMaiusc, km)
            /\ DB_registrar_checklist(PlacaMaiusc, km, d, its) )
          => ( /\ ret'.res \in {"ok", "alerta"}
               /\ ret'.id \notin {c.id : c \in db_checklists}
               /\ \E c \in db_checklists' :
                     /\ c.id = ret'.id
                     /\ c.km_atual = km /\ c.data_revisao = d /\ c.itens = its
               /\ db_checklists \subseteq db_checklists' )]_vars

\* a checklist 25,000 km above the vehicle's prior checklist was registered
\* with a mileage advisory
C15_Witness ==
    /\ ret.op = "registrar_checklist"
    /\ ret.res = "alerta"
    /\ \E c, a \in db_checklists :
          /\ c.id = ret.id /\ c.km_atual = 40000 /\ c.itens = <<>>
          /\ a.id < c.id /\ a.km_atual = 15000 /\ a.itens = <<>>

\* a checklist whose estimated total is 6,000 was registered with a cost
\* advisory
C15_WitnessCusto ==
    /\ ret.op = "registrar_checklist"
    /\ ret.res = "alerta"
    /\ Cardinality(db_checklists) = 1
    /\ \E c \in db_checklists : c.id = ret.id /\ custo_total_estimado(c) = 6000

\* C16: registering a vehicle whose identifier is already in the registry
\* returns normally and leaves the vehicles and the checklists as they were
\* (database-backed controller).
C16_CadastroIdempotente ==
    [][\A p \in PlacaInputsDB :
          ( /\ placa_valida(p)
            /\ MotoRepository_buscar_por_placa(Placa_armazenada(p)) # {}
            /\ DB_cadastrar_moto(p) )
          => ( /\ ret'.res # "ValueError"
               /\ db_motos' = db_motos
               /\ db_checklists' = db_checklists )]_vars

\* C16 on the in-memory controller: the same statement for
\* OficinaController.cadastrar_moto.
C16_CadastroIdempotente_Memoria ==
    [][\A p \in PlacaInputs :
          ( /\ placa_valida(p)
            /\ get_moto_por_placa(motos, Placa_armazenada(p)) # NoneVal
            /\ cadastrar_moto(p) )
          => ( /\ ret'.res # "ValueError"
               /\ motos' = motos
               /\ checklists' = checklists )]_vars

\* C17 on the in-memory controller: every item of every registered checklist
\* has an estimated cost >= 0.
C17_CustoEstimadoNaoNegativo_Memoria ==
    \A i \in 1..Len(checklists) :
        \A j \in 1..Len(checklists[i].itens) :
            checklists[i].itens[j].custo_estimado >= 0

\* C17: every stored checklist item has an estimated cost >= 0, whatever
\* item creations and item updates were made through either controller.
C17_CustoEstimadoNaoNegativo ==
    /\ C17_CustoEstimadoNaoNegativo_Memoria
    /\ \A c \in db_checklists :
          \A j \in 1..Len(c.itens) : c.itens[j].custo_estimado >= 0

\* C18: in every reachable state the real cost of a registered checklist is
\* absent or >= 0, whether it came from the constructor or from
\* atualizar_status_checklist, and its mileage is >= 0.
C18_CustoRealEKmNaoNegativos ==
    \A i \in 1..Len(checklists) :
        /\ checklists[i].custo_real = NoneVal \/ ValueOf(checklists[i].custo_real) >= 0
        /\ checklists[i].km_atual >= 0

\* the part of C18 that the code keeps: the mileage of a registered checklist
\* is >= 0.
C18_KmNaoNegativo ==
    \A i \in 1..Len(checklists) : checklists[i].km_atual >= 0

\* C19: setting finalizado changes nothing but finalizado, and setting pago
\* changes nothing but pago, of the checklist the id designates; the two
\* flags can take all four combinations, pago = TRUE with finalizado = FALSE
\* among them (the witnesses below).
C19_FlagsIndependentes ==
    [][\A id \in 1..MaxChecklistsFin, v \in BOOLEAN :
          LET i == indice_checklist(checklists, id)
          IN /\ (i # 0 /\ atualizar_status_checklist(id, Some(v), NoneVal, NoneVal))
                => checklists' = [checklists EXCEPT ![i].finalizado = v]
             /\ (i # 0 /\ atualizar_status_checklist(id, NoneVal, Some(v), NoneVal))
                => checklists' = [checklists EXCEPT ![i].pago = v]]_vars

\* a checklist with a real cost was just updated and is paid, not finalized
C19_Witness ==
    /\ ret.op = "atualizar_status_checklist"
    /\ ret.res = "ok"
    /\ \E i \in 1..Len(checklists) :
          /\ checklists[i].id = ret.id
          /\ checklists[i].pago /\ ~checklists[i].finalizado
          /\ checklists[i].custo_real = Some(1)

\* the other combinations of the flags after an update
C19_WitnessFinalizadoNaoPago ==
    /\ ret.op = "atualizar_status_checklist"
    /\ \E i \in 1..Len(checklists) : checklists[i].finalizado /\ ~checklists[i].pago

C19_WitnessFinalizadoPago ==
    /\ ret.op = "atualizar_status_checklist"
    /\ \E i \in 1..Len(checklists) : checklists[i].finalizado /\ checklists[i].pago

C19_WitnessDeVolta ==
    /\ ret.op = "atualizar_status_checklist"
    /\ ret.res = "ok"
    /\ \E i \in 1..Len(checklists) :
          /\ checklists[i].id = ret.id
          /\ ~checklists[i].finalizado /\ ~checklists[i].pago
          /\ checklists[i].custo_real # NoneVal

\* C20: appending to, removing from or reordering the list that
\* Checklist.itens returned leaves the item sequence of every checklist as
\* it was.
C20_ItensEhCopia ==
    [][(lista_append(ItemNovo) \/ lista_pop \/ lista_reverse)
          => checklists' = checklists]_vars

\* the caller has changed the list it got from checklist 1, which holds
\* items: the two item sequences differ
C20_Witness ==
    /\ ret.op \in {"list.append", "list.pop", "list.reverse"}
    /\ itens_devolvidos.id = 1
    /\ num_itens(1) = MaxItens
    /\ itens_devolvidos.itens # checklists[indice_checklist(checklists, 1)].itens

\* itens with one more element, item, behind the elements it had
AcrescidaDe(antes, depois, item) ==
    /\ Len(depois) = Len(antes) + 1
    /\ \A k \in 1..Len(antes) : depois[k] = antes[k]
    /\ depois[Len(depois)] = item

\* C21: adicionar_item and adicionar_item_checklist put the new item at the
\* last position, the count grows by one and every item the checklist had
\* keeps its index, name, category, status and cost; a value that is not a
\* ChecklistItem is rejected and the sequence is unchanged.
C21_AdicionarSoNoFim ==
    [][/\ \A id \in 1..MaxChecklistsItens, n \in NomeInputs,
             st \in {PENDENTE, NECESSITA_TROCA}, cu \in {-1, 2} :
             LET i == indice_checklist(checklists, id)
             IN ( /\ i # 0 /\ nome_valido(n)
                  /\ adicionar_item_checklist(id, n, st, cu) )
                => /\ ret'.res = "True"
                   /\ AcrescidaDe(checklists[i].itens, checklists'[i].itens,
                         [nome |-> str_strip(n), categoria |-> CategoriaGeral,
                          status |-> st, custo_estimado |-> IF cu < 0 THEN 0 ELSE cu])
                   /\ \A j \in 1..Len(checklists) :
                         j # i => checklists'[j] = checklists[j]
       /\ \A id \in 1..MaxChecklistsItens, o \in ObjetosAdicionados :
             LET i == indice_checklist(checklists, id)
             IN Checklist_adicionar_item(id, o)
                => IF o.classe = "ChecklistItem"
                   THEN /\ AcrescidaDe(checklists[i].itens, checklists'[i].itens, o.valor)
                        /\ \A j \in 1..Len(checklists) :
                              j # i => checklists'[j] = checklists[j]
                   ELSE /\ ret'.res = "ValueError"
                        /\ checklists' = checklists]_vars

\* an item was just added behind a different item of the same checklist
C21_Witness ==
    /\ ret.op \in {"adicionar_item", "adicionar_item_checklist"}
    /\ ret.res \in {"None", "True"}
    /\ \E i \in 1..Len(checklists) :
          /\ checklists[i].id = ret.id
          /\ Len(checklists[i].itens) = MaxItens
          /\ checklists[i].itens[1] # checklists[i].itens[MaxItens]
          /\ checklists[i].itens[1].categoria # CategoriaGeral

\* the thresholds of the mileage table and the items of a threshold
LimitesPorKm == {BlocosPorKm[b].limite : b \in 1..Len(BlocosPorKm)}
ItensDoLimite(t) ==
    UNION {{BlocosPorKm[b].itens[k] : k \in 1..Len(BlocosPorKm[b].itens)} :
             b \in {x \in 1..Len(BlocosPorKm) : BlocosPorKm[x].limite = t}}
\* the lowest threshold that lists the item
MenorLimite(item) ==
    CHOOSE t \in LimitesPorKm :
       /\ item \in ItensDoLimite(t)
       /\ \A u \in LimitesPorKm : item \in ItensDoLimite(u) => t <= u
PosicaoNoBloco(item) ==
    CHOOSE k \in 1..Len(BlocosPorKm) : 
       \E b \in 1..Len(BlocosPorKm) :
          /\ BlocosPorKm[b].limite = MenorLimite(item)
          /\ k \in 1..Len(BlocosPorKm[b].itens)
          /\ BlocosPorKm[b].itens[k] = item

\* C22: obter_itens_por_km(km) holds every item of every threshold t <= km,
\* no item of a threshold t > km, no (category, name) pair twice, and the
\* items in order of ascending threshold, first occurrence first.
C22_ItensPorKmCumulativos ==
    (gerado # NoneVal /\ ValueOf(gerado).op = "obter_itens_por_km")
    => LET km == ValueOf(gerado).km
           r == ValueOf(gerado).valor
           presentes == {r[k] : k \in 1..Len(r)}
       IN /\ {t \in LimitesPorKm : ItensDoLimite(t) # {}} =
                {10000, 15000, 20000, 25000, 30000, 40000, 50000}
          /\ presentes = UNION {ItensDoLimite(t) : t \in {u \in LimitesPorKm : u <= km}}
          /\ \A t \in LimitesPorKm : t > km => ItensDoLimite(t) \cap presentes = {}
          /\ \A i, j \in 1..Len(r) : i # j => r[i] # r[j]
          /\ \A i, j \in 1..Len(r) :
                i < j => \/ MenorLimite(r[i]) < MenorLimite(r[j])
                         \/ /\ MenorLimite(r[i]) = MenorLimite(r[j])
                            /\ PosicaoNoBloco(r[i]) < PosicaoNoBloco(r[j])

\* a mileage exactly on a threshold, with thresholds above it
C22_Witness ==
    /\ gerado # NoneVal
    /\ ValueOf(gerado).op = "obter_itens_por_km"
    /\ ValueOf(gerado).km = 20000
    /\ Len(ValueOf(gerado).valor) = 7

\* a mileage below every threshold gives the empty list
C22_WitnessVazio ==
    /\ gerado # NoneVal
    /\ ValueOf(gerado).op = "obter_itens_por_km"
    /\ ValueOf(gerado).km = 9999
    /\ ValueOf(gerado).valor = <<>>

\* C23: criar_checklist_adaptativo gives the 26 standard items in their
\* order followed by the items of the mileage, each PENDENTE with cost 0,
\* so the total is 0 and the checklist is neither finalized nor paid; the
\* result is a function of the mileage, the date and the vehicle.
C23_TemplateAdaptativo ==
    (gerado # NoneVal /\ ValueOf(gerado).op = "criar_checklist_adaptativo")
    => LET km == ValueOf(gerado).km
           c == ValueOf(gerado).valor
           por_km == obter_itens_por_km(km)
           esperado(k) == IF k <= 26 THEN CHECKLIST_REVISAO_PADRAO[k]
                          ELSE por_km[k - 26]
       IN /\ Len(CHECKLIST_REVISAO_PADRAO) = 26
          /\ Len(c.itens) = 26 + Len(por_km)
          /\ \A k \in 1..Len(c.itens) :
                c.itens[k] = [nome |-> <<esperado(k)[2]>>,
                              categoria |-> <<esperado(k)[1]>>,
                              status |-> PENDENTE, custo_estimado |-> 0]
          /\ custo_total_estimado(c) = 0
          /\ ~c.finalizado /\ ~c.pago /\ c.custo_real = NoneVal
          /\ c.km_atual = km /\ c.placa = PlacaMaiusc
          /\ ValueOf(gerado).data # NoneVal => c.data_revisao = ValueOf(ValueOf(gerado).data)

\* a checklist generated for a mileage with items of its own
C23_Witness ==
    /\ gerado # NoneVal
    /\ ValueOf(gerado).op = "criar_checklist_adaptativo"
    /\ ValueOf(gerado).km = 15000
    /\ Len(ValueOf(gerado).valor.itens) = 30

\* C24: estimar_custo_por_km returns no model exactly when fewer than two
\* checklists are registered and otherwise returns a slope and an intercept
\* without raising; prever_custo_para_km(km) returns no prediction exactly
\* when there is no model and otherwise slope * km + intercept.
C24_ModeloLinear ==
    [][/\ EstimarCustoPorKm
          => /\ estimativa'.res.tipo = "None" <=> Len(checklists) < 2
             /\ Len(checklists) >= 2 => estimativa'.res.tipo \in {"modelo", "nan"}
       /\ \A km \in KmFuturos :
             PreverCustoParaKm(km)
             => /\ estimativa'.res.tipo = "None" <=> Len(checklists) < 2
                /\ Len(checklists) >= 2
                   => \/ estimativa'.res.tipo = "nan"
                      \/ \E m \in estimar_custo_por_km(checklists) :
                            /\ m.tipo = "modelo"
                            /\ estimativa'.res =
                                  Estimado("valor", FracaoVezesMais(m.a, km, m.b), FracaoZero)]_vars

\* the same, for registries in which some checklist has a mileage above zero
C24_ModeloLinear_KmPositivo ==
    [][(\E k \in 1..Len(checklists) : checklists[k].km_atual > 0)
       => /\ EstimarCustoPorKm
             => /\ estimativa'.res.tipo = "None" <=> Len(checklists) < 2
                /\ Len(checklists) >= 2 => estimativa'.res.tipo = "modelo"
          /\ \A km \in KmFuturos :
                PreverCustoParaKm(km)
                => /\ estimativa'.res.tipo = "None" <=> Len(checklists) < 2
                   /\ Len(checklists) >= 2
                      => \E m \in estimar_custo_por_km(checklists) :
                            estimativa'.res =
                               Estimado("valor", FracaoVezesMais(m.a, km, m.b), FracaoZero)]_vars

\* the request carries a valid token whose subject is an active user
TokenDeUsuarioAtivo(cred) ==
    /\ cred.presente /\ cred.valido /\ cred.sub # NoneVal
    /\ \E u \in usuarios : u.username = ValueOf(cred.sub) /\ u.is_active = "true"
\* the request carries a valid token whose subject is a user that is inactive
TokenDeUsuarioInativo(cred) ==
    /\ cred.presente /\ cred.valido /\ cred.sub # NoneVal
    /\ \E u \in usuarios : u.username = ValueOf(cred.sub) /\ u.is_active # "true"
TokenDeAdministrador(cred) ==
    /\ TokenDeUsuarioAtivo(cred)
    /\ \E u \in usuarios : u.username = ValueOf(cred.sub) /\ u.is_admin = "true"
\* no controller operation ran: nothing of the registry was read or changed
RegistroIntocado ==
    /\ UNCHANGED <<concorrencia_vars, db_vars, relatorio, motos, checklists, usuarios>>
    /\ ret'.op \in {RotaListarMotos.nome, RotaCadastrarMoto.nome, RotaDeletarMoto.nome,
                    RotaCriarChecklist.nome, RotaAtualizarStatus.nome, RotaAtualizarItem.nome,
                    RotaDeletarChecklist.nome, RotaFinanceiro.nome}
                   \cup {r.nome : r \in RotasDeConsulta}
RequisicaoDeDelecao(cred) ==
    \/ API_deletar_moto(cred, PlacaMaiusc)
    \/ \E id \in 1..MaxSeqAPI : API_deletar_checklist(cred, id)

C25_WitnessDelecao ==
    /\ ret.op = RotaDeletarMoto.nome /\ ret.res = "HTTP 403"
    /\ db_motos # {}

\* a plate the claim calls invalid: the validator refuses it, or it has no digit
PlacaInvalida(p) ==
    \/ ~validar_placa_brasileira(p)
    \/ \A i \in 1..Len(p) : p[i] \notin Digitos

\* C26: registering a vehicle with an invalid plate is answered 400 and no
\* vehicle is stored; a plate of letters only, such as INVALID, is invalid.
C26_PlacaInvalidaRecebe400 ==
    [][\A cred \in CredenciaisInputs, p \in PlacasAPI :
          ( /\ TokenDeUsuarioAtivo(cred) /\ PlacaInvalida(p)
            /\ db_seq.moto < MaxSeqAPI
            /\ API_cadastrar_moto(cred, p) )
          => /\ resposta_http(ret') = "HTTP 400"
             /\ db_motos' = db_motos]_vars

\* the part that holds: a plate of 6 to 8 characters that the validator
\* refuses is answered 400 and nothing is stored
C26_PlacaRecusadaPeloValidador ==
    [][\A cred \in CredenciaisInputs, p \in PlacasAPI :
          ( /\ TokenDeUsuarioAtivo(cred) /\ ~validar_placa_brasileira(p)
            /\ Len(p) >= TamMinPlaca /\ Len(p) <= TamMaxPlaca
            /\ db_seq.moto < MaxSeqAPI
            /\ API_cadastrar_moto(cred, p) )
          => /\ resposta_http(ret') = "HTTP 400"
             /\ db_motos' = db_motos]_vars

\* C27: after any sequence of cadastrar_moto, registrar_checklist,
\* deletar_checklist_por_id and deletar_moto, every registered checklist
\* belongs to a vehicle that is in the vehicle registry, in the in-memory
\* registry and in the tables of the database.
C27_IntegridadeReferencial ==
    /\ \A k \in 1..Len(checklists) :
          \E j \in 1..Len(motos) : motos[j].placa = checklists[k].placa
    /\ \A c \in db_checklists : \E m \in db_motos : m.id = c.moto_id

\* a vehicle was deleted from the in-memory registry and the checklist of
\* another vehicle is still registered
C27_Witness ==
    /\ ret.op = "deletar_moto" /\ ret.res = "True"
    /\ checklists # <<>>

\* the same in the database
C27_WitnessDB ==
    /\ ret.op = "deletar_moto" /\ ret.res = "True"
    /\ db_checklists # {}

\* a checklist was registered for a vehicle that was not registered before
C27_WitnessRegistroAutomatico ==
    /\ ret.op = "registrar_checklist" /\ ret.res = "ok"
    /\ Len(motos) = 2 /\ Len(checklists) = 2
    /\ checklists[1].placa # checklists[2].placa

\* two checklists of one vehicle with no checklist of it dated between them
DatasConsecutivas(a, b) ==
    /\ a.moto_id = b.moto_id /\ a.data_revisao < b.data_revisao
    /\ ~\E c \in db_checklists :
          /\ c.moto_id = a.moto_id
          /\ a.data_revisao < c.data_revisao /\ c.data_revisao < b.data_revisao

\* C28: under the validating controller, the checklists of a vehicle have
\* non-decreasing mileage in order of revision date, and two checklists that
\* are consecutive in date differ by at most 50,000 in mileage.
C28_KmMonotonoPorData ==
    \A a, b \in db_checklists :
       /\ (a.moto_id = b.moto_id /\ a.data_revisao < b.data_revisao)
          => a.km_atual <= b.km_atual
       /\ DatasConsecutivas(a, b) => b.km_atual - a.km_atual <= LimiteKmErro

\* the order the validator does keep: a registration that succeeds has a
\* mileage that is not below, and at most 50,000 above, the mileage of a
\* checklist of the vehicle with the latest revision date
C28_KmContraOUltimo ==
    [][\A p \in {PlacaMaiusc, PlacaOutra}, km \in KmOrdem, d \in DataInputs :
          ( /\ DB_registrar_checklist(p, km, d, <<>>)
            /\ ret'.res # "ValueError"
            /\ ChecklistRepository_buscar_por_moto(p) # {} )
          => \E u \in ChecklistRepository_buscar_por_moto(p) :
                /\ \A c \in ChecklistRepository_buscar_por_moto(p) :
                      c.data_revisao <= u.data_revisao
                /\ km >= u.km_atual /\ km - u.km_atual <= LimiteKmErro]_vars

\* C29: once a registered checklist has a real cost, no later call of
\* atualizar_status_checklist makes it absent; custo_real = None leaves the
\* real cost as it was, and a call whose arguments are all None changes
\* nothing (database controller).
C29_CustoRealPermanece ==
    [][\A id \in {1, 2}, f \in OptBool, pg \in OptBool, cr \in OptCustoReal :
          DB_atualizar_status_checklist(id, f, pg, cr)
          => /\ \A c \in db_checklists :
                   \E d \in db_checklists' :
                      /\ d.id = c.id
                      /\ c.custo_real # NoneVal => d.custo_real # NoneVal
                      /\ cr = NoneVal => d.custo_real = c.custo_real
             /\ (f = NoneVal /\ pg = NoneVal /\ cr = NoneVal)
                => db_checklists' = db_checklists]_vars

\* the same for the in-memory controller
C29_CustoRealPermanece_Memoria ==
    [][\A id \in 1..MaxChecklistsFin, f \in OptBool, pg \in OptBool, cr \in OptCustoReal :
          atualizar_status_checklist(id, f, pg, cr)
          => /\ Len(checklists') = Len(checklists)
             /\ \A k \in 1..Len(checklists) :
                   /\ checklists[k].custo_real # NoneVal
                      => checklists'[k].custo_real # NoneVal
                   /\ cr = NoneVal => checklists'[k].custo_real = checklists[k].custo_real
             /\ (f = NoneVal /\ pg = NoneVal /\ cr = NoneVal)
                => checklists' = checklists]_vars

\* the real cost of database checklists alone: present once recorded, and
\* left as it was by custo_real = None
C29_CustoRealPermanece_SoCusto ==
    [][\A id \in {1, 2}, f \in OptBool, pg \in OptBool, cr \in OptCustoReal :
          DB_atualizar_status_checklist(id, f, pg, cr)
          => \A c \in db_checklists :
                \E d \in db_checklists' :
                   /\ d.id = c.id
                   /\ c.custo_real # NoneVal => d.custo_real # NoneVal
                   /\ cr = NoneVal => d.custo_real = c.custo_real]_vars

\* C30: when two requests register a vehicle with the same identifier
\* concurrently, their existence checks and insertions interleaving in any
\* order, then once the requests have returned the registry holds at most one
\* vehicle with that identifier, be it the list of the in-memory controller
\* or the table of the database one.
C30_NoMaximoUmPorPlaca ==
    (\A r \in 1..MaxPedidos : pedidos[r].pc = "livre") =>
        /\ \A i, j \in 1..Len(motos) : motos[i].placa = motos[j].placa => i = j
        /\ \A a, b \in db_motos : a.placa = b.placa => a = b

\* the part of C30 that holds: the unique index of the column placa keeps the
\* table of the database at one row a plate, whatever the interleaving
C30_NoMaximoUmPorPlaca_Banco ==
    \A a, b \in db_motos : a.placa = b.placa => a = b

\* two requests passed the check of the database controller for one plate
\* and the insertion of the second was refused
C30_WitnessBanco ==
    /\ ret = Resultado("cadastrar_moto", "IntegrityError", 0)
    /\ db_motos # {}

====
